---- MODULE Spec2Model ----
(***************************************************************************)
(* Model of LoopForge's ProcessManager (the loop-orchestration core):      *)
(* startLoop, the child process' stdout/close handlers, stopLoop,           *)
(* cleanupSession and runAutoReview, with every await of the asynchronous  *)
(* handlers as a separate step so that the handlers interleave as they do  *)
(* on Node's event loop.                                                    *)
(***************************************************************************)
EXTENDS Integers, FiniteSets, Sequences, TLC

\* ------------------------------------------------------------------ bounds

\* Session ids used by the callers.
Sessions == {"A", "B"}

\* Patient callers (they start a session only while it is attached or idle):
\* the number of agent processes spawned over a whole behaviour with one
\* session, and with two sessions.
MaxProcs == 2
MaxIsoProcs == 2

\* Number of review:trigger requests of patient callers over a whole behaviour.
MaxManualReviews == 1

\* Largest maxIterations a caller passes (0 = unlimited).
MaxIterations == 1

\* The maxAutoIterations a caller passes with an enabled auto-continue policy.
MaxAutoIterations == 1

\* Racing callers (they start a session at any time): the number of processes
\* with capped loops, with reviewed loops, and the number of review:trigger
\* requests.
RaceProcs == 3
RaceReviewProcs == 2
RaceManualReviews == 1

\* The number of processes spawned where the force-kill timers of stopLoop are
\* followed.
StopProcs == 2

\* The longest tracking document handed to checkPlanExhausted, in characters.
MaxDocLen == 4

\* Where the stdout streams are followed: the number of processes spawned, the
\* text all of them write in tokens, and the longest chunk of a 'data' event.
StreamProcs == 2
MaxStreamLen == 4
MaxChunkLen == 3

\* The longest review output handed to parseReviewOutput, in segments.
MaxSegments == 2

\* The longest text handed to parseRalphStatus, in tokens.
MaxStatusLen == 4

\* The number of review:trigger requests where the review process and the
\* timer of runAutoReview are followed.
TimedReviews == 2

MaxOf(a, b) == IF a >= b THEN a ELSE b
Pids ==
  1..MaxOf(MaxOf(MaxOf(MaxProcs, MaxIsoProcs), MaxOf(RaceProcs, RaceReviewProcs)),
           MaxOf(StopProcs, StreamProcs))
Rids == 1..MaxOf(MaxOf(MaxManualReviews, RaceManualReviews), TimedReviews)

\* What the callers do over one behaviour: the sessions they use, how many
\* processes and review requests there are in all, the kinds of config
\* loop:start carries, whether they are patient, and whether the model follows
\* the force-kill timers of stopLoop and the stdout streams of the processes
\* (the tokens they write; none where the streams are not followed).
SoloScope ==
  [sessions |-> {"A"}, procs |-> MaxProcs, reviews |-> MaxManualReviews,
   kinds |-> {"capped", "review", "continue"}, patient |-> TRUE,
   escalate |-> FALSE, stream |-> {}]
IsoScope ==
  [sessions |-> Sessions, procs |-> MaxIsoProcs, reviews |-> 0,
   kinds |-> {"review"}, patient |-> TRUE,
   escalate |-> FALSE, stream |-> {}]
Scopes == {SoloScope, IsoScope}

RaceCappedScope ==
  [sessions |-> {"A"}, procs |-> RaceProcs, reviews |-> 0, kinds |-> {"capped"},
   patient |-> FALSE,
   escalate |-> FALSE, stream |-> {}]
RaceReviewScope ==
  [sessions |-> {"A"}, procs |-> RaceReviewProcs, reviews |-> RaceManualReviews,
   kinds |-> {"review", "continue"}, patient |-> FALSE,
   escalate |-> FALSE, stream |-> {}]
RaceScopes == {RaceCappedScope, RaceReviewScope}

\* No callers: nothing but a pure function of the manager is exercised.
NoScope ==
  [sessions |-> {}, procs |-> 0, reviews |-> 0, kinds |-> {}, patient |-> TRUE,
   escalate |-> FALSE, stream |-> {}]

\* The tokens a process writes to stdout: a piece of text that is not JSON, a
\* digit, the JSON text null, and the newline.
StreamTokens == {"a", "1", "null", "\n"}

\* A patient caller of one session with plain loops whose processes' stdout
\* streams are followed.
StreamScope ==
  [sessions |-> {"A"}, procs |-> StreamProcs, reviews |-> 0,
   kinds |-> {"plain"}, patient |-> TRUE, escalate |-> FALSE,
   stream |-> StreamTokens]

\* The same with processes that write lines of digits only.
OrderScope == [StreamScope EXCEPT !.stream = {"1", "\n"}]

\* A patient caller of one session with capped loops whose stopLoop timers and
\* signals are followed.
StopScope ==
  [sessions |-> {"A"}, procs |-> StopProcs, reviews |-> 0, kinds |-> {"capped"},
   patient |-> TRUE, escalate |-> TRUE, stream |-> {}]

\* A caller of review:trigger for one session, where the review process and
\* the timer of each runAutoReview call are followed.
TimedScope ==
  [sessions |-> {"A"}, procs |-> 0, reviews |-> TimedReviews, kinds |-> {},
   patient |-> TRUE, escalate |-> FALSE, stream |-> {}]

\* ------------------------------------------------------------ JS Map helpers

Has(m, k) == k \in DOMAIN m
GetOr(m, k, d) == IF k \in DOMAIN m THEN m[k] ELSE d
Put(m, k, v) == [x \in (DOMAIN m) \cup {k} |-> IF x = k THEN v ELSE m[x]]
Del(m, k) == [x \in (DOMAIN m) \ {k} |-> m[x]]
EmptyMap == [x \in {} |-> 0]

\* ------------------------------------------------------------------ configs

\* LoopConfig; defined = FALSE stands for `undefined` (sessionConfigs.get miss).
MkConfig(s, mi, ap, ar, ace, acm, acc, pf) ==
  [defined |-> TRUE, sessionId |-> s, maxIterations |-> mi, autoPush |-> ap,
   autoReview |-> ar, acEnabled |-> ace, acMax |-> acm, acCur |-> acc,
   promptFile |-> pf]

NoConfig ==
  [defined |-> FALSE, sessionId |-> "", maxIterations |-> 0, autoPush |-> FALSE,
   autoReview |-> FALSE, acEnabled |-> FALSE, acMax |-> 0, acCur |-> 0,
   promptFile |-> ""]

\* The configs a loop:start request carries, by kind: a capped loop with
\* auto-push, an uncapped loop with auto-review, one with auto-review and an
\* enabled auto-continue policy, and a plain uncapped loop.
ExtConfigs(s, kinds) ==
  { MkConfig(s, mi, TRUE, FALSE, FALSE, 0, 0, "PROMPT_build.md") :
      mi \in IF "capped" \in kinds THEN 1..MaxIterations ELSE {} } \cup
  { MkConfig(s, 0, FALSE, TRUE, FALSE, 0, 0, "PROMPT_build.md") :
      k \in kinds \cap {"review"} } \cup
  { MkConfig(s, 0, FALSE, TRUE, TRUE, MaxAutoIterations, 0, "PROMPT_build.md") :
      k \in kinds \cap {"continue"} } \cup
  { MkConfig(s, 0, FALSE, FALSE, FALSE, 0, 0, "PROMPT_build.md") :
      k \in kinds \cap {"plain"} }

\* The minimal config review:trigger stores when the session has none.
MinimalConfig(s) ==
  MkConfig(s, 0, FALSE, FALSE, FALSE, 0, 0, "PROMPT_build.md")

\* ----------------------------------------------------------- review results

MkResult(st, mi) == [reviewStatus |-> st, missingItems |-> mi]

\* createErrorReviewResult: status ERROR, missingItems [].
createErrorReviewResult == MkResult("ERROR", "empty")

\* What parseReviewOutput yields for the outputs the review process writes:
\* "null" (nothing recognisable) or a result.  missingItems is "undefined"
\* when a validated object simply lacks the field.
ParsedResults ==
  { MkResult("COMPLETE", "empty"), MkResult("COMPLETE", "nonempty"),
    MkResult("PARTIAL", "nonempty"), MkResult("PARTIAL", "empty"),
    MkResult("INCOMPLETE", "undefined") }

\* How one run of the review pipeline ends after the guard was set.
ReviewOutcomes ==
  { [kind |-> "parsed", result |-> r] : r \in ParsedResults } \cup
  { [kind |-> k, result |-> createErrorReviewResult] :
      k \in {"unparseable", "exitNoOutput", "spawnError", "timeout", "writeFail"} }

\* The value runAutoReview returns (and caches) for an outcome.
ReviewReturn(o) == IF o.kind = "parsed" THEN o.result ELSE createErrorReviewResult

\* ---------------------------------------------------------------- variables

VARIABLES
  processes,            \* Map sessionId -> pid of the attached ChildProcess
  outputBuffers,        \* Map sessionId -> partial stdout line
  sessionConfigs,       \* Map sessionId -> LoopConfig
  iterationCounts,      \* Map sessionId -> number
  shouldContinueLoop,   \* Map sessionId -> boolean
  exitSignalReceived,   \* Map sessionId -> boolean
  currentBranches,      \* Map sessionId -> branch name
  reviewInProgress,     \* Map sessionId -> boolean
  latestReviewResults,  \* Map sessionId -> ReviewResult
  proc,                 \* pid -> the child process and its close-handler closure
  rev,                  \* rid -> a review:trigger request and its runAutoReview call
  stopped,              \* sessions stopped by stopLoop and not started since
  ev,                   \* what the last step emitted or answered
  scope,                \* what the callers do (fixed over a behaviour)
  timers,               \* pending force-kill timers of stopLoop: <<sessionId, pid>>
  signals,              \* pid -> the signals sent to the process
  written,              \* pid -> the text the process wrote to stdout
  events,               \* the stdout and iteration:update events emitted, in order
  reviewOutput,         \* the output of the review process handed to the parser
  reviewResult,         \* what parseReviewOutput / runAutoReview answered
  planFile,             \* the tracking document handed to checkPlanExhausted
  planAnswer,           \* what checkPlanExhausted answered
  reviewRuns,           \* rid -> the review process of the call, its timer, its return
  statusText,           \* the text handed to parseRalphStatus
  statusAnswer          \* what parseRalphStatus answered

maps == <<processes, outputBuffers, sessionConfigs, iterationCounts,
          shouldContinueLoop, exitSignalReceived, currentBranches,
          reviewInProgress>>

vars == <<processes, outputBuffers, sessionConfigs, iterationCounts,
          shouldContinueLoop, exitSignalReceived, currentBranches,
          reviewInProgress, latestReviewResults, proc, rev, stopped, ev,
          scope, timers, signals, written, events, reviewOutput, reviewResult,
          planFile, planAnswer, reviewRuns, statusText, statusAnswer>>

\* The kill timers and signals, the stdout streams, and the inputs and answers
\* of the review parser, of the plan check and of the status scan with the
\* review processes.
kill == <<timers, signals>>
streams == <<written, events>>
scan == <<statusText, statusAnswer>>
inputs == <<reviewOutput, reviewResult, planFile, planAnswer, reviewRuns, scan>>
aux == <<kill, streams, inputs>>

\* A pid that was never spawned.  The fields after pc are the locals of the
\* close handler; run (the ordinal of the process within its loop cycle) and
\* sentExit (the process wrote EXIT_SIGNAL: true) are history; pushed is the
\* event the try/catch around git push emitted ("system" after a push that
\* succeeded, "stderr" after one that failed or timed out).
Unborn ==
  [sid |-> "", pc |-> "unborn", code |-> 0, config |-> NoConfig,
   shouldContinue |-> FALSE, exitSignal |-> FALSE, currentIteration |-> 0,
   planExhausted |-> FALSE, reason |-> "none", run |-> 0, sentExit |-> FALSE,
   pushed |-> "none"]

\* The closure h as it is kept while the handler waits at h.pc: locals that no
\* later statement reads are dropped.
Norm(h) ==
  LET b == [Unborn EXCEPT !.sid = h.sid, !.pc = h.pc] IN
  CASE h.pc = "running" -> [b EXCEPT !.run = h.run, !.sentExit = h.sentExit]
    [] h.pc = "planCheck" -> [h EXCEPT !.planExhausted = FALSE, !.reason = "none"]
    [] h.pc = "push" -> [b EXCEPT !.config = h.config, !.run = h.run,
                                  !.currentIteration = h.currentIteration]
    [] h.pc = "delay" -> [b EXCEPT !.config = h.config, !.run = h.run]
    [] h.pc \in {"review", "contDocs", "contDelay"} -> [b EXCEPT !.config = h.config]
    [] h.pc \in {"restartFailed", "contFailed"} -> b
    [] OTHER -> [Unborn EXCEPT !.pc = "done"]

NoReview == [sid |-> "", pc |-> "unborn"]

\* An event or an answer: op names the kind and err the error message;
\* caller is who called startLoop / runAutoReview; reason, exitCode and
\* totalIterations are the payload of a complete event, runs the ordinal of
\* the process that exited and maxIterations the cap of its config; ret is
\* the result a review returned, planExhausted what the plan check of the
\* handler answered; of a call of runAutoReview, planMissing tells that the
\* tracking document did not exist and emits which review event its guards
\* emitted; pushed is the event the push of the restart branch emitted before
\* the increment.
Event(op, s, err) ==
  [op |-> op, sid |-> s, err |-> err, caller |-> "none", reason |-> "none",
   exitCode |-> 0, totalIterations |-> 0, runs |-> 0, maxIterations |-> 0,
   ret |-> "none", planExhausted |-> FALSE, planMissing |-> FALSE,
   emits |-> "none", pushed |-> "none"]

NoEvent == Event("none", "", "none")

\* No value yet.
Unset == [kind |-> "unset"]

\* A runAutoReview call that has spawned nothing: child is the review process
\* ("none", "alive", "erred" after its 'error' event, "exited" after 'close'),
\* timer the 10-minute timer ("none", "set", "cleared", "fired"), signals what
\* the process was sent, returned the outcome of the call once it returned.
NoRun == [child |-> "none", timer |-> "none", signals |-> {}, returned |-> Unset]

\* The state of a freshly constructed ProcessManager.
Constructed ==
  /\ processes = EmptyMap
  /\ outputBuffers = EmptyMap
  /\ sessionConfigs = EmptyMap
  /\ iterationCounts = EmptyMap
  /\ shouldContinueLoop = EmptyMap
  /\ exitSignalReceived = EmptyMap
  /\ currentBranches = EmptyMap
  /\ reviewInProgress = EmptyMap
  /\ latestReviewResults = EmptyMap
  /\ proc = [p \in Pids |-> Unborn]
  /\ rev = [r \in Rids |-> NoReview]
  /\ stopped = {}
  /\ ev = NoEvent
  /\ timers = {}
  /\ signals = [p \in Pids |-> {}]
  /\ written = [p \in Pids |-> <<>>]
  /\ events = <<>>
  /\ reviewResult = Unset
  /\ planAnswer = Unset
  /\ reviewRuns = [r \in Rids |-> NoRun]
  /\ statusAnswer = Unset

\* In the specifications of the loop the review parser and the plan check are
\* given nothing: their answers are inputs of the close handler's steps.
NoInputs == reviewOutput = Unset /\ planFile = Unset /\ statusText = Unset

Init == Constructed /\ NoInputs /\ scope \in Scopes

InitRace == Constructed /\ NoInputs /\ scope \in RaceScopes

InitStop == Constructed /\ NoInputs /\ scope = StopScope

InitStream == Constructed /\ NoInputs /\ scope = StreamScope

InitOrder == Constructed /\ NoInputs /\ scope = OrderScope

InitTimed == Constructed /\ NoInputs /\ scope = TimedScope

\* ---------------------------------------------------------------- startLoop

\* `git branch --show-current` succeeds in session A's project directory and
\* throws in session B's (not a git repository).
IsGitRepo(s) == s = "A"

\* The pid the next spawn gets (0: the model's process budget is used up).
NextPid ==
  IF \E p \in 1..scope.procs : proc[p].pc = "unborn"
    THEN CHOOSE p \in 1..scope.procs : proc[p].pc = "unborn" /\
                                       \A q \in 1..(p - 1) : proc[q].pc # "unborn"
    ELSE 0

\* startLoop without its already-running check.
StartLoopErrorNoRunningCheck(cfg, promptExists) ==
  IF ~promptExists THEN "Prompt file not found" ELSE "none"

\* The error startLoop throws before it touches any state, or "none".
StartLoopError(cfg, promptExists) ==
  IF Has(processes, cfg.sessionId) THEN "already running"
  ELSE IF ~promptExists THEN "Prompt file not found"
  ELSE "none"

\* The registry after a startLoop that spawned pid.
StartLoopMaps(cfg, pid) ==
  LET s == cfg.sessionId IN
  /\ currentBranches' = IF IsGitRepo(s) THEN Put(currentBranches, s, "main")
                                        ELSE currentBranches
  /\ processes' = Put(processes, s, pid)
  /\ outputBuffers' = Put(outputBuffers, s, <<>>)
  /\ sessionConfigs' = Put(sessionConfigs, s, cfg)
  /\ iterationCounts' = Put(iterationCounts, s, GetOr(iterationCounts, s, 0))
  /\ shouldContinueLoop' = Put(shouldContinueLoop, s, TRUE)
  /\ exitSignalReceived' = Put(exitSignalReceived, s, FALSE)

\* The child process startLoop spawned, with its handlers attached.
Spawned(cfg, run) ==
  [Unborn EXCEPT !.sid = cfg.sessionId, !.pc = "running", !.run = run]

\* startLoop(cfg) called by `caller` ("external", or the close handler's
\* "restart" / "continuation"); hp is proc with the caller's own closure
\* already updated for the two ways the call can end.
StartLoop(cfg, promptExists, caller, run, hpOk, hpErr) ==
  LET err == StartLoopError(cfg, promptExists) IN
  IF err # "none"
    THEN /\ proc' = hpErr
         /\ ev' = [Event("startLoop", cfg.sessionId, err) EXCEPT !.caller = caller]
         /\ UNCHANGED <<maps, latestReviewResults, rev, stopped, scope, aux>>
    ELSE /\ NextPid # 0
         /\ StartLoopMaps(cfg, NextPid)
         /\ proc' = [hpOk EXCEPT ![NextPid] = Spawned(cfg, run)]
         /\ ev' = [Event("startLoop", cfg.sessionId, "none") EXCEPT
                     !.caller = caller]
         /\ stopped' = IF caller = "external" THEN stopped \ {cfg.sessionId}
                                              ELSE stopped
         /\ UNCHANGED <<reviewInProgress, latestReviewResults, rev, scope, aux>>

\* No process of session s is alive and no close handler of one is pending.
Idle(s) == \A p \in Pids : proc[p].sid = s => proc[p].pc \in {"unborn", "done"}

\* loop:start (websocket): a caller starts a loop for a session.  A patient
\* caller does so only while the session's loop is attached (and is rejected)
\* or the session is idle, never while a close handler is still at work.
ExtStartLoop(s) ==
  \E cfg \in ExtConfigs(s, scope.kinds), promptExists \in BOOLEAN :
    /\ scope.patient => Has(processes, s) \/ Idle(s)
    /\ StartLoop(cfg, promptExists, "external", 1, proc, proc)

\* --------------------------------------------------------- cleanupSession

\* A cleanup that clears the maps instead of deleting the session's entries.
CleanupSessionClearsMaps(s) ==
  /\ processes' = EmptyMap
  /\ outputBuffers' = EmptyMap
  /\ sessionConfigs' = EmptyMap
  /\ iterationCounts' = EmptyMap
  /\ shouldContinueLoop' = EmptyMap
  /\ exitSignalReceived' = EmptyMap
  /\ currentBranches' = EmptyMap
  /\ reviewInProgress' = EmptyMap

\* cleanupSession: every per-session entry but the cached results is deleted.
CleanupSession(s) ==
  /\ processes' = Del(processes, s)
  /\ outputBuffers' = Del(outputBuffers, s)
  /\ sessionConfigs' = Del(sessionConfigs, s)
  /\ iterationCounts' = Del(iterationCounts, s)
  /\ shouldContinueLoop' = Del(shouldContinueLoop, s)
  /\ exitSignalReceived' = Del(exitSignalReceived, s)
  /\ currentBranches' = Del(currentBranches, s)
  /\ reviewInProgress' = Del(reviewInProgress, s)

\* ----------------------------------------------------------------- stopLoop

\* stopLoop: the flag is cleared first; with no attached process the session is
\* cleaned up (which also drops the flag just written) and false is returned,
\* otherwise the process is sent SIGTERM, the force-kill timer is set and true
\* is returned.  The timer and the signals are followed where the callers'
\* scope says so; elsewhere their only effect, the exit of the process, is a
\* step the process may take at any time.
StopLoop(s) ==
  /\ stopped' = stopped \cup {s}
  /\ IF ~Has(processes, s)
       THEN /\ CleanupSession(s)
            /\ ev' = Event("stopLoop", s, "none")
            /\ UNCHANGED <<latestReviewResults, proc, rev, scope, aux>>
       ELSE /\ shouldContinueLoop' = Put(shouldContinueLoop, s, FALSE)
            /\ IF scope.escalate
                 THEN /\ signals' = [signals EXCEPT ![processes[s]] =
                                                      @ \cup {"SIGTERM"}]
                      /\ timers' = timers \cup {<<s, processes[s]>>}
                 ELSE UNCHANGED kill
            /\ ev' = [Event("stopLoop", s, "none") EXCEPT !.caller = "attached"]
            /\ UNCHANGED <<processes, outputBuffers, sessionConfigs,
                           iterationCounts, exitSignalReceived, currentBranches,
                           reviewInProgress, latestReviewResults, proc, rev,
                           scope, streams, inputs>>

\* A force-kill timer that only expires.
KillTimerNoKill(s, p) ==
  /\ <<s, p>> \in timers
  /\ timers' = timers \ {<<s, p>>}
  /\ ev' = Event("killTimer", s, "none")
  /\ UNCHANGED <<maps, latestReviewResults, proc, rev, stopped, scope, signals,
                 streams, inputs>>

\* The force-kill timer stopLoop set for process p of session s fires after
\* 5 s: SIGKILL to p if the session has an attached process.
KillTimer(s, p) ==
  /\ <<s, p>> \in timers
  /\ timers' = timers \ {<<s, p>>}
  /\ signals' = IF Has(processes, s)
                  THEN [signals EXCEPT ![p] = @ \cup {"SIGKILL"}]
                  ELSE signals
  /\ ev' = Event("killTimer", s, "none")
  /\ UNCHANGED <<maps, latestReviewResults, proc, rev, stopped, scope, streams,
                 inputs>>

\* ------------------------------------------------------------ stdout handler

\* Sequences over S of length at most n.
SeqsUpTo(S, n) == UNION {[1..k -> S] : k \in 0..n}

\* What \s of a JavaScript regular expression matches.
IsSpace(c) == c \in {" ", "\n"}

\* The first position from i on that holds no white space (Len(s) + 1 if none).
RECURSIVE SkipSpace(_, _)
SkipSpace(s, i) ==
  IF i <= Len(s) /\ IsSpace(s[i]) THEN SkipSpace(s, i + 1) ELSE i

\* The first of a set of indexes (0: none).
FirstIndex(S) == IF S = {} THEN 0 ELSE CHOOSE i \in S : \A j \in S : i <= j

\* split('\n') of a text given as a sequence of characters.
RECURSIVE Split(_)
Split(s) ==
  IF s = <<>> THEN << <<>> >>
  ELSE LET rest == Split(Tail(s)) IN
       IF Head(s) = "\n" THEN << <<>> >> \o rest
       ELSE << <<Head(s)>> \o Head(rest) >> \o Tail(rest)

\* line.trim() is empty.
IsBlank(line) == \A i \in 1..Len(line) : IsSpace(line[i])

\* JSON.parse(line) returns (a number, or null) rather than throws.
JsonParses(line) ==
  \/ line = <<"null">>
  \/ line # <<>> /\ \A i \in 1..Len(line) : line[i] = "1"

\* A stdout event for the n-th line of process p: data is the parsed JSON
\* (parsed) or {raw: line}.
StdoutEvent(p, n, line, parsed) ==
  [type |-> "stdout", pid |-> p, line |-> n, text |-> line, parsed |-> parsed,
   iteration |-> 0]

\* The body of the loop over the complete lines for one line: a blank line is
\* skipped; a line that parses is emitted as parsed JSON, and when the parsed
\* value is null the property access that follows throws inside the try, so
\* that the catch emits the line once more as raw; any other line is emitted
\* as raw.
ForwardLine(p, n, line) ==
  IF IsBlank(line) THEN <<>>
  ELSE IF JsonParses(line)
    THEN IF line = <<"null">>
           THEN <<StdoutEvent(p, n, line, TRUE), StdoutEvent(p, n, line, FALSE)>>
           ELSE <<StdoutEvent(p, n, line, TRUE)>>
  ELSE <<StdoutEvent(p, n, line, FALSE)>>

\* for (const line of lines): the events of lines k.. of `lines`, the first of
\* which is the (base + k)-th line of the process.
RECURSIVE ForwardLines(_, _, _, _)
ForwardLines(p, lines, k, base) ==
  IF k > Len(lines) THEN <<>>
  ELSE ForwardLine(p, base + k, lines[k]) \o ForwardLines(p, lines, k + 1, base)

\* The number of newlines in a text.
RECURSIVE Newlines(_)
Newlines(s) ==
  IF s = <<>> THEN 0
  ELSE (IF Head(s) = "\n" THEN 1 ELSE 0) + Newlines(Tail(s))

\* The tokens written so far by all processes.
RECURSIVE TotalWritten(_)
TotalWritten(P) ==
  IF P = {} THEN 0
  ELSE LET p == CHOOSE q \in P : TRUE IN Len(written[p]) + TotalWritten(P \ {p})

\* 'data' on the stdout of process p: the chunk is appended to the session's
\* buffer, the buffer split at the newlines, the last piece kept as the new
\* buffer and every complete line forwarded.
StdoutData(p) ==
  \E chunk \in SeqsUpTo(scope.stream, MaxChunkLen) \ {<<>>} :
    LET s == proc[p].sid
        buffer == GetOr(outputBuffers, s, <<>>) \o chunk
        lines == Split(buffer)
        complete == SubSeq(lines, 1, Len(lines) - 1)
    IN
    /\ proc[p].pc = "running"
    /\ TotalWritten(Pids) + Len(chunk) <= MaxStreamLen
    /\ outputBuffers' = Put(outputBuffers, s, lines[Len(lines)])
    /\ written' = [written EXCEPT ![p] = @ \o chunk]
    /\ events' = events \o ForwardLines(p, complete, 1, Newlines(written[p]))
    /\ ev' = Event("stdout", s, "none")
    /\ UNCHANGED <<processes, sessionConfigs, iterationCounts,
                   shouldContinueLoop, exitSignalReceived, currentBranches,
                   reviewInProgress, latestReviewResults, proc, rev, stopped,
                   scope, kill, inputs>>

\* ---------------------------------------------------------- parseRalphStatus

\* The tokens of the texts scanned: the marker RALPH_STATUS:, the fields
\* EXIT_SIGNAL: true and TASK_COMPLETED: "done", the newline, the letter z and
\* another letter.
StatusTokens == {"RALPH_STATUS:", "EXIT_SIGNAL: true", "TASK_COMPLETED: \"done\"",
                 "\n", "z", "x"}
StatusTexts == SeqsUpTo(StatusTokens, MaxStatusLen)

\* (?=\n\n|\z) at position k of the text: a blank line starts there, or (\z
\* being the escaped letter z in a JavaScript pattern) the letter z stands
\* there.
BlockEndAt(text, k) ==
  /\ k <= Len(text)
  /\ \/ text[k] = "z"
     \/ k < Len(text) /\ text[k] = "\n" /\ text[k + 1] = "\n"

\* A block end that is the blank line or the end of the input.
BlockEndAtBlankLineOrEnd(text, k) ==
  \/ k = Len(text) + 1
  \/ k < Len(text) /\ text[k] = "\n" /\ text[k + 1] = "\n"

\* The capture of /RALPH_STATUS:\s*([\s\S]*?)(?=\n\n|\z)/ for the marker at
\* position m, or "none" without a match: \s* takes the white space after the
\* marker and the capture runs to the first block end; when there is none
\* from there on, \s* gives white space back and the capture is empty if a
\* block end lies within it.
StatusBlock(text, m) ==
  LET w == SkipSpace(text, m + 1)
      ends == {k \in w..Len(text) + 1 : BlockEndAt(text, k)}
      inner == {k \in (m + 1)..(w - 1) : BlockEndAt(text, k)}
  IN IF ends # {} THEN SubSeq(text, w, FirstIndex(ends) - 1)
     ELSE IF inner # {} THEN <<>>
     ELSE "none"

\* The positions of the marker in the text.
Markers(text) == {m \in 1..Len(text) : text[m] = "RALPH_STATUS:"}

\* The first position of the marker at which the pattern matches (0: none).
MatchedMarker(text) ==
  FirstIndex({m \in Markers(text) : StatusBlock(text, m) # "none"})

\* The status built from a block: every field is its default unless its
\* pattern matches in the block.
StatusOf(block) ==
  [kind |-> "status",
   taskCompleted |-> IF \E i \in 1..Len(block) : block[i] = "TASK_COMPLETED: \"done\""
                       THEN "done" ELSE "",
   exitSignal |-> \E i \in 1..Len(block) : block[i] = "EXIT_SIGNAL: true"]

\* parseRalphStatus(text)
parseRalphStatus(text) ==
  IF MatchedMarker(text) = 0 THEN [kind |-> "null"]
  ELSE StatusOf(StatusBlock(text, MatchedMarker(text)))

\* parseRalphStatus is called on the text.
ScanStatus ==
  /\ statusAnswer = Unset
  /\ statusAnswer' = parseRalphStatus(statusText)
  /\ UNCHANGED <<maps, latestReviewResults, proc, rev, stopped, ev, scope, kill,
                 streams, reviewOutput, reviewResult, planFile, planAnswer,
                 reviewRuns, statusText>>

InitStatus ==
  /\ Constructed
  /\ scope = NoScope
  /\ reviewOutput = Unset
  /\ planFile = Unset
  /\ statusText \in StatusTexts

SpecStatus == InitStatus /\ [][ScanStatus]_vars

\* handleRalphStatus for a status block with EXIT_SIGNAL: true written by
\* process p (a block with EXIT_SIGNAL: false only emits events).
HandleRalphStatus(p) ==
  /\ proc[p].pc = "running"
  /\ exitSignalReceived' = Put(exitSignalReceived, proc[p].sid, TRUE)
  /\ proc' = [proc EXCEPT ![p].sentExit = TRUE]
  /\ ev' = Event("ralph_status", proc[p].sid, "none")
  /\ UNCHANGED <<processes, outputBuffers, sessionConfigs, iterationCounts,
                 shouldContinueLoop, currentBranches, reviewInProgress,
                 latestReviewResults, rev, stopped, scope, aux>>


\* ------------------------------------------------------------- close handler

\* maxReached of the close handler h.
MaxReached(h) ==
  /\ h.config.defined
  /\ h.config.maxIterations > 0
  /\ h.currentIteration >= h.config.maxIterations

\* A restart condition that does not look at the exit code.
RestartConditionAnyExitCode(h) ==
  /\ h.shouldContinue
  /\ ~h.exitSignal
  /\ ~MaxReached(h)
  /\ ~h.planExhausted
  /\ h.config.defined

\* The condition under which the close handler restarts the loop.
RestartCondition(h) ==
  /\ h.code = 0
  /\ h.shouldContinue
  /\ ~h.exitSignal
  /\ ~MaxReached(h)
  /\ ~h.planExhausted
  /\ h.config.defined

\* A reason chain that looks at the manual stop first.
ReasonStoppedFirst(h) ==
  IF ~h.shouldContinue THEN "stopped"
  ELSE IF h.planExhausted THEN "plan exhausted"
  ELSE IF h.exitSignal THEN "exit signal"
  ELSE IF MaxReached(h) THEN "max iterations"
  ELSE IF h.code # 0 THEN "exit code"
  ELSE "unknown"

\* The reason the complete event carries.
Reason(h) ==
  IF h.planExhausted THEN "plan exhausted"
  ELSE IF h.exitSignal THEN "exit signal"
  ELSE IF MaxReached(h) THEN "max iterations"
  ELSE IF ~h.shouldContinue THEN "stopped"
  ELSE IF h.code # 0 THEN "exit code"
  ELSE "unknown"

\* The handler of p moves to pc.
Goto(p, h, pc) == [proc EXCEPT ![p] = Norm([h EXCEPT !.pc = pc])]

\* The handler ends: cleanupSession, session:end.
Finish(p, h, e) ==
  /\ CleanupSession(h.sid)
  /\ proc' = Goto(p, h, "done")
  /\ ev' = e
  /\ UNCHANGED <<latestReviewResults, rev, stopped, scope, aux>>

\* Guards that do not look for the tracking document.
ReviewGuardIgnoresFiles(s, planExists) ==
  IF GetOr(reviewInProgress, s, FALSE) THEN "Review already in progress"
  ELSE "none"

\* The guards of runAutoReview: the error it ends with before the
\* review-in-progress flag is set, or "none".
ReviewGuard(s, planExists) ==
  IF GetOr(reviewInProgress, s, FALSE) THEN "Review already in progress"
  ELSE IF ~planExists THEN "Missing required files"
  ELSE "none"

\* Event e of a step that called runAutoReview, with what the guards did: for
\* the missing document review:error is emitted and the error result
\* returned; past the guards review:start is emitted; the throw of the first
\* guard emits nothing.
GuardOutcome(e, g, planExists) ==
  [e EXCEPT !.planMissing = ~planExists,
            !.emits = IF g = "none" THEN "review:start"
                      ELSE IF g = "Missing required files" THEN "review:error"
                      ELSE "none",
            !.ret = IF g = "Missing required files"
                      THEN createErrorReviewResult.reviewStatus ELSE "none"]

\* An auto-continue decision that does not look at the review status.
ContinueDecisionIgnoresStatus(cfg, result) ==
  IF cfg.acEnabled /\ result.missingItems = "undefined" THEN "throw"
  ELSE IF cfg.acEnabled /\ result.missingItems = "nonempty" /\
          cfg.acCur < cfg.acMax
    THEN "continue"
  ELSE IF cfg.acEnabled /\ cfg.acCur >= cfg.acMax THEN "maxed"
  ELSE "none"

\* The auto-continue decision of the close handler for a review result:
\* "continue", "throw" (missingItems.length of undefined), "maxed" (the
\* max-auto-iterations message) or "none".
ContinueDecision(cfg, result) ==
  IF cfg.acEnabled /\ result.reviewStatus # "COMPLETE" /\
     result.missingItems = "undefined"
    THEN "throw"
  ELSE IF cfg.acEnabled /\ result.reviewStatus # "COMPLETE" /\
          result.missingItems = "nonempty" /\ cfg.acCur < cfg.acMax
    THEN "continue"
  ELSE IF cfg.acEnabled /\ cfg.acCur >= cfg.acMax THEN "maxed"
  ELSE "none"

\* The complete event of handler h.
CompleteEvent(h) ==
  [Event("complete", h.sid, "none") EXCEPT
     !.reason = h.reason, !.exitCode = h.code,
     !.totalIterations = h.currentIteration, !.runs = h.run,
     !.maxIterations = h.config.maxIterations,
     !.planExhausted = h.planExhausted]

\* An auto-review condition that does not look at the exit code.
AutoReviewConditionAnyExitCode(h) == h.config.autoReview /\ ~h.exitSignal

\* The condition under which the close handler calls runAutoReview after the
\* complete event.
AutoReviewCondition(h) == h.code = 0 /\ h.config.autoReview /\ ~h.exitSignal

\* The else branch of the close handler: the complete event, then the
\* auto-review up to its first await and, if it returns at once, the rest.
CompleteBranch(p, h0, planExists) ==
  LET h == [h0 EXCEPT !.reason = Reason(h0)]
      s == h.sid
      g == ReviewGuard(s, planExists)
      d == ContinueDecision(h.config, createErrorReviewResult)
  IN
  IF AutoReviewCondition(h)
    THEN IF g = "Review already in progress"
           THEN Finish(p, h, GuardOutcome([CompleteEvent(h) EXCEPT
                                             !.err = "Auto-review failed"],
                                          g, planExists))
         ELSE IF g = "Missing required files"
           THEN Finish(p, h, GuardOutcome([CompleteEvent(h) EXCEPT
                                             !.err = g, !.caller = d],
                                          g, planExists))
         ELSE /\ reviewInProgress' = Put(reviewInProgress, s, TRUE)
              /\ proc' = Goto(p, h, "review")
              /\ ev' = GuardOutcome([CompleteEvent(h) EXCEPT
                                       !.caller = "review:start"], g, planExists)
              /\ UNCHANGED <<processes, outputBuffers, sessionConfigs,
                             iterationCounts, shouldContinueLoop,
                             exitSignalReceived, currentBranches,
                             latestReviewResults, rev, stopped, scope, aux>>
    ELSE Finish(p, h, CompleteEvent(h))

\* The iteration:update event of the handler of process p.
IterationEvent(p, k) ==
  [type |-> "iteration:update", pid |-> p, line |-> 0, text |-> <<>>,
   parsed |-> FALSE, iteration |-> k]

\* An increment that emits no iteration:update event.
IncrementNoUpdate(p, h) ==
  /\ iterationCounts' = Put(iterationCounts, h.sid, h.currentIteration + 1)
  /\ proc' = Goto(p, h, "delay")
  /\ ev' = Event("none", h.sid, "none")
  /\ UNCHANGED <<processes, outputBuffers, sessionConfigs, shouldContinueLoop,
                 exitSignalReceived, currentBranches, reviewInProgress,
                 latestReviewResults, rev, stopped, scope, aux>>

\* The increment of the restart branch, up to the 2 s delay.
Increment(p, h) ==
  /\ iterationCounts' = Put(iterationCounts, h.sid, h.currentIteration + 1)
  /\ proc' = Goto(p, h, "delay")
  /\ ev' = [Event("iteration:update", h.sid, "none") EXCEPT
              !.totalIterations = h.currentIteration + 1,
              !.planExhausted = h.planExhausted,
              !.pushed = h.pushed]
  /\ events' = IF scope.stream # {}
                 THEN Append(events, IterationEvent(p, h.currentIteration + 1))
                 ELSE events
  /\ UNCHANGED <<processes, outputBuffers, sessionConfigs, shouldContinueLoop,
                 exitSignalReceived, currentBranches, reviewInProgress,
                 latestReviewResults, rev, stopped, scope, kill, written,
                 inputs>>

\* 'close' of process p with exit code `code`: the handler up to its first await
\* (the plan check), which it reaches only when the session has a config.
Close(p) ==
  \E code \in {0, 1} :
    LET s == proc[p].sid
        h == [proc[p] EXCEPT
                !.code = code,
                !.config = GetOr(sessionConfigs, s, NoConfig),
                !.shouldContinue = GetOr(shouldContinueLoop, s, FALSE),
                !.exitSignal = GetOr(exitSignalReceived, s, FALSE),
                !.currentIteration = GetOr(iterationCounts, s, 0)]
    IN
    /\ proc[p].pc = "running"
    /\ IF h.config.defined
         THEN /\ processes' = Del(processes, s)
              /\ outputBuffers' = Del(outputBuffers, s)
              /\ proc' = Goto(p, h, "planCheck")
              /\ ev' = Event("close", s, "none")
              /\ UNCHANGED <<sessionConfigs, iterationCounts, shouldContinueLoop,
                             exitSignalReceived, currentBranches,
                             reviewInProgress, latestReviewResults, rev, stopped,
                             scope, aux>>
         ELSE Finish(p, h, CompleteEvent([h EXCEPT !.reason = Reason(h)]))

\* checkPlanExhausted resolved: restart branch (up to the push or the delay) or
\* else branch.  The plan file may be missing (then it is not exhausted).
PlanChecked(p) ==
  \E exhausted \in BOOLEAN, planExists \in BOOLEAN :
    LET h == [proc[p] EXCEPT !.planExhausted = exhausted] IN
    /\ proc[p].pc = "planCheck"
    /\ exhausted => planExists
    /\ IF RestartCondition(h)
         THEN IF h.config.autoPush
                THEN /\ proc' = Goto(p, h, "push")
                     /\ ev' = [Event("push", h.sid, "none") EXCEPT
                                 !.planExhausted = h.planExhausted]
                     /\ UNCHANGED <<maps, latestReviewResults, rev, stopped,
                                    scope, aux>>
                ELSE Increment(p, h)
         ELSE CompleteBranch(p, h, planExists)

\* A push whose failure ends the handler with an error instead of going on.
PushDoneStopsOnFailure(p) ==
  \E ok \in BOOLEAN :
    /\ proc[p].pc = "push"
    /\ IF ok THEN Increment(p, [proc[p] EXCEPT !.pushed = "system"])
             ELSE Finish(p, proc[p], Event("error", proc[p].sid, "Git push failed"))

\* git push resolved (ok) or was rejected or timed out: the try emits the
\* 'system' event, the catch the 'stderr' event, and either way the handler
\* goes on with the increment.
PushDone(p) ==
  \E ok \in BOOLEAN :
    /\ proc[p].pc = "push"
    /\ Increment(p, [proc[p] EXCEPT !.pushed = IF ok THEN "system" ELSE "stderr"])

\* The 2 s delay is over: restart unless the flag is no longer set.
DelayDone(p) ==
  \E promptExists \in BOOLEAN :
    LET h == proc[p] IN
    /\ h.pc = "delay"
    /\ IF ~GetOr(shouldContinueLoop, h.sid, FALSE)
         THEN /\ proc' = Goto(p, h, "done")
              /\ ev' = Event("none", h.sid, "none")
              /\ UNCHANGED <<maps, latestReviewResults, rev, stopped, scope, aux>>
         ELSE StartLoop(h.config, promptExists, "restart", h.run + 1,
                        Goto(p, h, "done"), Goto(p, h, "restartFailed"))

\* The catch of the failed restart: cleanupSession, error event, session:end.
RestartFailed(p) ==
  /\ proc[p].pc = "restartFailed"
  /\ Finish(p, proc[p], Event("error", proc[p].sid, "Failed to restart loop"))

\* ------------------------------------------------------------- runAutoReview

\* The tail of runAutoReview without its finally block.
ReviewTailNoFinally(s, o) ==
  /\ latestReviewResults' = Put(latestReviewResults, s, ReviewReturn(o))
  /\ UNCHANGED reviewInProgress

\* A tail of runAutoReview that returns its result without caching it.
ReviewTailNoCache(s, o) ==
  /\ UNCHANGED latestReviewResults
  /\ reviewInProgress' = Del(reviewInProgress, s)

\* The tail of runAutoReview for outcome o: the result is cached, the
\* review-in-progress flag deleted (finally), the result returned.
ReviewTail(s, o) ==
  /\ latestReviewResults' = Put(latestReviewResults, s, ReviewReturn(o))
  /\ reviewInProgress' = Del(reviewInProgress, s)

ReviewEvent(s, o, caller) ==
  [Event("review:return", s, IF o.kind = "parsed" THEN "none" ELSE o.kind)
     EXCEPT !.ret = ReviewReturn(o).reviewStatus, !.caller = caller]

\* The auto-review the close handler of p awaits returns; the handler decides
\* on the continuation and, without one, cleans the session up.
AutoReviewDone(p) ==
  \E o \in ReviewOutcomes :
    LET h == proc[p]
        s == h.sid
        d == ContinueDecision(h.config, ReviewReturn(o))
    IN
    /\ h.pc = "review"
    /\ IF d = "continue"
         THEN /\ ReviewTail(s, o)
              /\ proc' = Goto(p, h, "contDocs")
              /\ UNCHANGED <<processes, outputBuffers, sessionConfigs,
                             iterationCounts, shouldContinueLoop,
                             exitSignalReceived, currentBranches>>
         ELSE /\ latestReviewResults' =
                   Put(latestReviewResults, s, ReviewReturn(o))
              /\ CleanupSession(s)
              /\ proc' = Goto(p, h, "done")
    /\ ev' = [ReviewEvent(s, o, "auto") EXCEPT !.reason = d]
    /\ UNCHANGED <<rev, stopped, scope, aux>>

\* generateContinuationDocs resolved (the counter is reset, the 3 s delay
\* starts) or rejected (catch: error event, cleanup).
ContDocsDone(p) ==
  \E ok \in BOOLEAN :
    LET h == proc[p] IN
    /\ h.pc = "contDocs"
    /\ IF ok
         THEN /\ iterationCounts' = Put(iterationCounts, h.sid, 0)
              /\ proc' = Goto(p, h, "contDelay")
              /\ ev' = Event("continuation", h.sid, "none")
              /\ UNCHANGED <<processes, outputBuffers, sessionConfigs,
                             shouldContinueLoop, exitSignalReceived,
                             currentBranches, reviewInProgress,
                             latestReviewResults, rev, stopped, scope, aux>>
         ELSE Finish(p, h, Event("error", h.sid, "Auto-review failed"))

\* The config of the continuation cycle.
ContinueConfig(cfg) ==
  [cfg EXCEPT !.promptFile = "PROMPT_continue.md", !.acCur = cfg.acCur + 1]

\* The 3 s delay is over: startLoop(continueConfig).
ContDelayDone(p) ==
  \E promptExists \in BOOLEAN :
    LET h == proc[p] IN
    /\ h.pc = "contDelay"
    /\ StartLoop(ContinueConfig(h.config), promptExists, "continuation", 1,
                 Goto(p, h, "done"), Goto(p, h, "contFailed"))

\* The catch of the failed continuation: error event, cleanup, session:end.
ContFailed(p) ==
  /\ proc[p].pc = "contFailed"
  /\ Finish(p, proc[p], Event("error", proc[p].sid, "Auto-review failed"))

\* review:trigger (websocket): a minimal config is stored when the session has
\* none, then runAutoReview runs up to its first await.
ManualReview(r, s) ==
  \E planExists \in BOOLEAN :
    LET g == ReviewGuard(s, planExists) IN
    /\ r <= scope.reviews
    /\ s \in scope.sessions
    /\ rev[r].pc = "unborn"
    /\ \A q \in Rids : q < r => rev[q].pc # "unborn"
    /\ sessionConfigs' = IF Has(sessionConfigs, s) THEN sessionConfigs
                         ELSE Put(sessionConfigs, s, MinimalConfig(s))
    /\ IF g = "none"
         THEN /\ reviewInProgress' = Put(reviewInProgress, s, TRUE)
              /\ rev' = [rev EXCEPT ![r] = [sid |-> s, pc |-> "inflight"]]
         ELSE /\ UNCHANGED reviewInProgress
              /\ rev' = [rev EXCEPT ![r] = [sid |-> "", pc |-> "done"]]
    /\ ev' = GuardOutcome([Event("review:trigger", s, g) EXCEPT
                              !.caller = "manual"], g, planExists)
    /\ UNCHANGED <<processes, outputBuffers, iterationCounts, shouldContinueLoop,
                   exitSignalReceived, currentBranches, latestReviewResults,
                   proc, stopped, scope, aux>>

\* The runAutoReview call of a review:trigger request returns.
ManualReviewDone(r) ==
  \E o \in ReviewOutcomes :
    /\ rev[r].pc = "inflight"
    /\ ReviewTail(rev[r].sid, o)
    /\ rev' = [rev EXCEPT ![r] = [sid |-> "", pc |-> "done"]]
    /\ ev' = ReviewEvent(rev[r].sid, o, "manual")
    /\ UNCHANGED <<processes, outputBuffers, sessionConfigs, iterationCounts,
                   shouldContinueLoop, exitSignalReceived, currentBranches,
                   proc, stopped, scope, aux>>

\* ------------------------------------------- runAutoReview, step by step

\* The outcome of a runAutoReview call that has returned: what ended it and
\* the result it returned.
Outcome(k) ==
  [kind |-> k, result |-> createErrorReviewResult]

\* The call of request r returns with outcome o, its review process and timer
\* being as in run: the result is cached, the flag deleted (finally).
ReviewReturns(r, o, run) ==
  /\ ReviewTail(rev[r].sid, o)
  /\ rev' = [rev EXCEPT ![r] = [sid |-> "", pc |-> "done"]]
  /\ reviewRuns' = [reviewRuns EXCEPT ![r] =
                      [run EXCEPT !.returned =
                         [kind |-> "returned", outcome |-> o.kind,
                          result |-> ReviewReturn(o)]]]
  /\ ev' = ReviewEvent(rev[r].sid, o, "manual")
  /\ UNCHANGED <<processes, outputBuffers, sessionConfigs, iterationCounts,
                 shouldContinueLoop, exitSignalReceived, currentBranches, proc,
                 stopped, scope, kill, streams, reviewOutput, reviewResult,
                 planFile, planAnswer, scan>>

\* Something happened to the review process of request r after which the call
\* is where it was (its promise is settled, or goes on at pc).
ReviewGoesOn(r, pc, run, op) ==
  /\ rev' = [rev EXCEPT ![r].pc = pc]
  /\ reviewRuns' = [reviewRuns EXCEPT ![r] = run]
  /\ ev' = Event(op, rev[r].sid, "none")
  /\ UNCHANGED <<maps, latestReviewResults, proc, stopped, scope, kill, streams,
                 reviewOutput, reviewResult, planFile, planAnswer, scan>>

\* The write of PROMPT_review.md settled: rejected (catch: error result), or
\* resolved, and then the review process is spawned with its handlers and the
\* 10-minute timer is set, unless spawn throws.
PromptWritten(r) ==
  \E how \in {"spawned", "writeFail", "spawnError"} :
    /\ rev[r].pc = "inflight"
    /\ IF how = "spawned"
         THEN ReviewGoesOn(r, "awaitOutput",
                           [reviewRuns[r] EXCEPT !.child = "alive", !.timer = "set"],
                           "review:spawn")
         ELSE ReviewReturns(r, Outcome(how), reviewRuns[r])

\* clearTimeout(timeout)
ClearTimeout(run) == [run EXCEPT !.timer = IF @ = "set" THEN "cleared" ELSE @]

\* 'close' of the review process of request r: the timer is cleared; resolve
\* with the output when the code is 0 or there is output, reject otherwise;
\* neither does anything to a promise that is settled.
ReviewProcClose(r) ==
  \E code \in {0, 1}, hasOutput \in BOOLEAN :
    LET run == [ClearTimeout(reviewRuns[r]) EXCEPT !.child = "exited"] IN
    /\ reviewRuns[r].child \in {"alive", "erred"}
    /\ IF rev[r].pc # "awaitOutput"
         THEN ReviewGoesOn(r, rev[r].pc, run, "review:close")
       ELSE IF code = 0 \/ hasOutput
         THEN ReviewGoesOn(r, "saveOutput", run, "review:close")
       ELSE ReviewReturns(r, Outcome("exitNoOutput"), run)

\* 'error' of the review process of request r: the timer is cleared and the
\* promise rejected.
ReviewProcError(r) ==
  LET run == [ClearTimeout(reviewRuns[r]) EXCEPT !.child = "erred"] IN
  /\ reviewRuns[r].child = "alive"
  /\ IF rev[r].pc # "awaitOutput"
       THEN ReviewGoesOn(r, rev[r].pc, run, "review:procError")
       ELSE ReviewReturns(r, Outcome("spawnError"), run)

\* A timer that signals the process and leaves the promise pending.
ReviewTimerKillsOnly(r) ==
  /\ reviewRuns[r].timer = "set"
  /\ ReviewGoesOn(r, rev[r].pc,
                  [reviewRuns[r] EXCEPT !.timer = "fired",
                                        !.signals = @ \cup {"SIGTERM"}],
                  "review:timer")

\* The 10-minute timer of request r fires: SIGTERM to the review process and
\* the promise is rejected (catch: the 'Review timed out' error result).
ReviewTimer(r) ==
  LET run == [reviewRuns[r] EXCEPT !.timer = "fired",
                                   !.signals = @ \cup {"SIGTERM"}] IN
  /\ reviewRuns[r].timer = "set"
  /\ IF rev[r].pc # "awaitOutput"
       THEN ReviewGoesOn(r, rev[r].pc, run, "review:timer")
       ELSE ReviewReturns(r, Outcome("timeout"), run)

\* The write of the debug copy of the output settled: rejected (catch), or
\* resolved, and then the output is parsed and the result returned.
OutputSaved(r) ==
  \E o \in {x \in ReviewOutcomes : x.kind \in {"parsed", "unparseable", "writeFail"}} :
    /\ rev[r].pc = "saveOutput"
    /\ ReviewReturns(r, o, reviewRuns[r])

\* The review:trigger requests with the review process of each call.
NextTimed ==
  \/ \E r \in Rids, s \in Sessions : ManualReview(r, s)
  \/ \E r \in Rids : PromptWritten(r)
  \/ \E r \in Rids : ReviewProcClose(r)
  \/ \E r \in Rids : ReviewProcError(r)
  \/ \E r \in Rids : ReviewTimer(r)
  \/ \E r \in Rids : OutputSaved(r)

\* The writes of the file system settle and a timer that is set fires; the
\* review process need never exit.
TimedFairness ==
  \A r \in Rids :
    /\ WF_vars(PromptWritten(r))
    /\ WF_vars(ReviewTimer(r))
    /\ WF_vars(OutputSaved(r))

SpecTimed == InitTimed /\ [][NextTimed]_vars /\ TimedFairness

Next ==
  \/ \E s \in scope.sessions : ExtStartLoop(s)
  \/ \E s \in scope.sessions : StopLoop(s)
  \/ \E p \in Pids : HandleRalphStatus(p)
  \/ \E p \in Pids : Close(p)
  \/ \E p \in Pids : PlanChecked(p)
  \/ \E p \in Pids : PushDone(p)
  \/ \E p \in Pids : DelayDone(p)
  \/ \E p \in Pids : RestartFailed(p)
  \/ \E p \in Pids : AutoReviewDone(p)
  \/ \E p \in Pids : ContDocsDone(p)
  \/ \E p \in Pids : ContDelayDone(p)
  \/ \E p \in Pids : ContFailed(p)
  \/ \E r \in Rids, s \in Sessions : ManualReview(r, s)
  \/ \E r \in Rids : ManualReviewDone(r)

\* Patient callers.
Spec == Init /\ [][Next]_vars

\* Racing callers.
SpecRace == InitRace /\ [][Next]_vars

\* ---------------------------------------------------------- parseReviewOutput

\* The output of the review process is a sequence of segments: prose, prose
\* with keywords ("reviewStatus: PARTIAL", "overallScore: 250"), a fenced
\* ```json block and a bare JSON text.  The JSON text is null, an object,
\* or an object cut off before its closing brace; of an object the members
\* reviewStatus (a status, a status in lower case, another word),
\* overallScore (a number within or above the range, a string of digits),
\* requirements and missingItems are followed.  The objects take every
\* status with every score, and the object that passes validation also
\* comes without its lists.
ValidStatuses == {"COMPLETE", "PARTIAL", "INCOMPLETE", "ERROR", "PENDING"}
NoScore == [type |-> "absent", value |-> 0]
ScoreTexts ==
  {NoScore, [type |-> "number", value |-> 95], [type |-> "number", value |-> 150],
   [type |-> "string", value |-> 150]}
NullBody ==
  [form |-> "null", status |-> "absent", score |-> NoScore,
   requirements |-> "absent", missingItems |-> "absent"]
Body(form, st, sc, req, mi) ==
  [form |-> form, status |-> st, score |-> sc, requirements |-> req,
   missingItems |-> mi]
JsonBodies ==
  {Body("object", st, sc, "list", "nonempty") :
     st \in {"absent", "COMPLETE", "partial", "DONE"}, sc \in ScoreTexts} \cup
  {Body("object", "COMPLETE", [type |-> "number", value |-> 95], req, mi) :
     req \in {"absent", "list"}, mi \in {"absent", "nonempty"}} \cup
  {Body("truncated", st, sc, "absent", "absent") :
     st \in {"absent", "COMPLETE"},
     sc \in {NoScore, [type |-> "number", value |-> 150]}} \cup
  {NullBody}
Prose == [kind |-> "prose", status |-> "none", score |-> NoScore, body |-> NullBody]
Keywords(st, sc) == [Prose EXCEPT !.kind = "keywords", !.status = st, !.score = sc]
Segments ==
  {Prose, Keywords("PARTIAL", NoScore),
   Keywords("none", [type |-> "number", value |-> 250]),
   Keywords("PARTIAL", [type |-> "number", value |-> 250])} \cup
  {[Prose EXCEPT !.kind = k, !.body = b] : k \in {"fence", "bare"}, b \in JsonBodies}
ReviewOutputs == SeqsUpTo(Segments, MaxSegments)

\* The segment's text has an opening brace, the member "reviewStatus" in
\* quotes, a closing brace.
HasBrace(seg) == seg.kind \in {"fence", "bare"} /\ seg.body.form # "null"
HasStatusMember(seg) == HasBrace(seg) /\ seg.body.status # "absent"
HasClose(seg) == HasBrace(seg) /\ seg.body.form = "object"

\* toUpperCase of the status texts.
ToUpper(st) == IF st = "partial" THEN "PARTIAL" ELSE st

\* What /reviewStatus["']?\s*[:=]\s*["']?(COMPLETE|PARTIAL|INCOMPLETE)["']?/i
\* captures in the segment, in upper case ("none": no match).
StatusKeyword(seg) ==
  IF seg.kind = "keywords" THEN seg.status
  ELSE IF HasBrace(seg) /\ seg.body.status \in {"COMPLETE", "partial"}
    THEN ToUpper(seg.body.status)
  ELSE "none"

\* What /overallScore["']?\s*[:=]\s*(\d+)/ captures in the segment: the digits
\* must follow the colon, so a quoted score does not match.
ScoreKeyword(seg) ==
  IF seg.kind = "keywords" THEN seg.score
  ELSE IF HasBrace(seg) /\ seg.body.score.type = "number" THEN seg.body.score
  ELSE NoScore

\* A review result; tier tells what built it.
Result(st, sc, req, mi, tier) ==
  [kind |-> "result", reviewStatus |-> st, overallScore |-> sc,
   requirements |-> req, missingItems |-> mi, tier |-> tier,
   reviewDurationMs |-> "absent"]
NullResult == [kind |-> "null"]

\* validateReviewResultWithDetails(parsed).valid for a parsed object.
ValidReview(b) ==
  /\ b.form = "object"
  /\ b.status \in ValidStatuses
  /\ b.score.type = "number" /\ b.score.value >= 0 /\ b.score.value <= 100
  /\ b.requirements = "list"

\* Math.max(0, Math.min(100, n))
Clamp(n) == IF n < 0 THEN 0 ELSE IF n > 100 THEN 100 ELSE n

\* normalizeReviewResult({...fixReviewResult(parsed), ...}): the status is
\* put in upper case and is INCOMPLETE when that is no status, a numeric
\* score is clamped, a string score parsed and a missing one 0, the lists are
\* made lists.
RepairedResult(b, tier) ==
  LET up == ToUpper(b.status)
      st == IF up \in ValidStatuses THEN up ELSE "INCOMPLETE"
      sc == IF b.score.type = "number" THEN Clamp(b.score.value)
            ELSE IF b.score.type = "string" THEN b.score.value
            ELSE 0
  IN Result(st, [type |-> "number", value |-> sc], "list",
            IF b.missingItems = "absent" THEN "empty" ELSE b.missingItems, tier)

\* A valid review result with every field repaired all the same.
ValidAsRepaired(b, tier) == RepairedResult(b, tier)

\* {...parsed, timestamp, rawOutput} for a parsed object that passed validation.
ValidAsParsed(b, tier) ==
  Result(b.status, b.score, b.requirements, b.missingItems, tier)

\* The body of the try of the first two tiers for the JSON text b: the result
\* returned, or "threw" when JSON.parse throws (a cut-off object) or
\* fixReviewResult does (null has no properties), which the catch swallows.
ParsedTier(b, tier) ==
  IF b.form = "truncated" THEN [kind |-> "threw", at |-> "JSON.parse"]
  ELSE IF b.form = "null" THEN [kind |-> "threw", at |-> "fixReviewResult"]
  ELSE IF ValidReview(b) THEN ValidAsParsed(b, tier)
  ELSE RepairedResult(b, tier)

IsFence(seg) == seg.kind = "fence"

\* Where /```json\s*([\s\S]*?)```/ matches: the first fenced block.
FirstFence(out) == FirstIndex({i \in 1..Len(out) : IsFence(out[i])})

\* Tier 1: the first ```json block.
FencedTier(out) ==
  LET i == FirstFence(out) IN
  IF i = 0 THEN [kind |-> "none"] ELSE ParsedTier(out[i].body, "fenced")

\* Where /\{[\s\S]*?"reviewStatus"[\s\S]*?\}/ matches: from the first opening
\* brace that has "reviewStatus" and then a closing brace after it (0: no
\* match).
BareMatchStart(out) ==
  LET ok(i) == /\ HasBrace(out[i])
               /\ \E j \in i..Len(out) :
                    /\ HasStatusMember(out[j])
                    /\ \E k \in j..Len(out) : HasClose(out[k])
  IN FirstIndex({i \in 1..Len(out) : ok(i)})

\* Tier 2: the text from the matched opening brace to the brace that closes
\* it; a cut-off object is never closed, the text taken is empty and
\* JSON.parse throws.
BareTier(out) ==
  LET i == BareMatchStart(out) IN
  IF i = 0 THEN [kind |-> "none"] ELSE ParsedTier(out[i].body, "bare")

IsStatusKeyword(seg) == StatusKeyword(seg) # "none"
IsScoreKeyword(seg) == ScoreKeyword(seg) # NoScore

\* Tier 3, extractPartialReview and normalizeReviewResult: the first status
\* keyword (ERROR without one) and the first score keyword (0 without one),
\* when there is either.
PartialTier(out) ==
  LET i == FirstIndex({h \in 1..Len(out) : IsStatusKeyword(out[h])})
      j == FirstIndex({h \in 1..Len(out) : IsScoreKeyword(out[h])})
  IN IF i = 0 /\ j = 0 THEN NullResult
     ELSE Result(IF i = 0 THEN "ERROR" ELSE StatusKeyword(out[i]),
                 IF j = 0 THEN [type |-> "number", value |-> 0]
                          ELSE ScoreKeyword(out[j]),
                 "list", "empty", "partial")

\* A parser that tries the bare JSON object before the fenced block.
parseReviewOutputBareFirst(out) ==
  IF BareTier(out).kind = "result" THEN BareTier(out)
  ELSE IF FencedTier(out).kind = "result" THEN FencedTier(out)
  ELSE PartialTier(out)

\* parseReviewOutput(output)
parseReviewOutput(out) ==
  IF FencedTier(out).kind = "result" THEN FencedTier(out)
  ELSE IF BareTier(out).kind = "result" THEN BareTier(out)
  ELSE PartialTier(out)

\* A runAutoReview that does not cache what it returns.
ReviewResultNotCached(s, parsed) ==
  [returned |-> IF parsed.kind = "null"
                  THEN [Result("ERROR", [type |-> "number", value |-> 0], "list",
                               "empty", "error") EXCEPT !.reviewDurationMs = "set"]
                  ELSE [parsed EXCEPT !.reviewDurationMs = "set"],
   cache |-> latestReviewResults,
   event |-> [Event("review:complete", s, "none") EXCEPT !.ret = "none"]]

\* runAutoReview from the parse on: null becomes the error result; the
\* result gets its duration, is cached, reported by review:complete and
\* returned.
ReviewResultOf(s, parsed) ==
  LET res == IF parsed.kind = "null"
               THEN Result("ERROR", [type |-> "number", value |-> 0], "list",
                           "empty", "error")
               ELSE parsed
      timed == [res EXCEPT !.reviewDurationMs = "set"]
  IN [returned |-> timed,
      cache |-> Put(latestReviewResults, s, timed),
      event |-> [Event("review:complete", s, "none") EXCEPT
                   !.ret = timed.reviewStatus]]

\* The review process of the runAutoReview call of request r has written its
\* output: the output is parsed and the call returns (finally: the
\* review-in-progress flag is deleted).
ReviewOutputParsed(r) ==
  LET s == rev[r].sid
      parsed == parseReviewOutput(reviewOutput)
      out == ReviewResultOf(s, parsed)
  IN
  /\ rev[r].pc = "inflight"
  /\ reviewResult = Unset
  /\ reviewResult' = [kind |-> "returned", parsed |-> parsed,
                      returned |-> out.returned]
  /\ latestReviewResults' = out.cache
  /\ reviewInProgress' = Del(reviewInProgress, s)
  /\ rev' = [rev EXCEPT ![r] = [sid |-> "", pc |-> "done"]]
  /\ ev' = out.event
  /\ UNCHANGED <<processes, outputBuffers, sessionConfigs, iterationCounts,
                 shouldContinueLoop, exitSignalReceived, currentBranches, proc,
                 stopped, scope, kill, streams, reviewOutput, planFile,
                 planAnswer, reviewRuns, scan>>

\* A fresh manager on which review:trigger for session A has started
\* runAutoReview, whose review process writes one of the outputs.
InitReview ==
  /\ processes = EmptyMap
  /\ outputBuffers = EmptyMap
  /\ sessionConfigs = Put(EmptyMap, "A", MinimalConfig("A"))
  /\ iterationCounts = EmptyMap
  /\ shouldContinueLoop = EmptyMap
  /\ exitSignalReceived = EmptyMap
  /\ currentBranches = EmptyMap
  /\ reviewInProgress = Put(EmptyMap, "A", TRUE)
  /\ latestReviewResults = EmptyMap
  /\ proc = [p \in Pids |-> Unborn]
  /\ rev = [r \in Rids |-> IF r = 1 THEN [sid |-> "A", pc |-> "inflight"]
                                    ELSE NoReview]
  /\ stopped = {}
  /\ ev = GuardOutcome([Event("review:trigger", "A", "none") EXCEPT
                          !.caller = "manual"], "none", TRUE)
  /\ timers = {}
  /\ signals = [p \in Pids |-> {}]
  /\ written = [p \in Pids |-> <<>>]
  /\ events = <<>>
  /\ reviewResult = Unset
  /\ planAnswer = Unset
  /\ reviewRuns = [r \in Rids |-> NoRun]
  /\ statusText = Unset
  /\ statusAnswer = Unset
  /\ planFile = Unset
  /\ scope = NoScope
  /\ reviewOutput \in ReviewOutputs

NextReview == \E r \in Rids : ReviewOutputParsed(r)

SpecReview == InitReview /\ [][NextReview]_vars

\* --------------------------------------------------------- checkPlanExhausted

\* -\s*\[\s*\] matches in s from position i.
MarkerAt(s, i) ==
  /\ i <= Len(s)
  /\ s[i] = "-"
  /\ LET j == SkipSpace(s, i + 1) IN
       /\ j <= Len(s)
       /\ s[j] = "["
       /\ LET k == SkipSpace(s, j + 1) IN k <= Len(s) /\ s[k] = "]"

\* ^ under the m flag: the start of the text or the position after a newline.
LineStart(s, i) == i = 1 \/ s[i - 1] = "\n"

\* /^-\s*\[\s*\]/m.test(content)
HasRemainingTasks(content) ==
  \E i \in 1..Len(content) : LineStart(content, i) /\ MarkerAt(content, i)

\* The characters of the tracking documents and the documents themselves; the
\* file may also be missing or unreadable.
DocChars == {"-", " ", "[", "]", "x", "\n"}
PlanFiles ==
  {[kind |-> "missing"], [kind |-> "unreadable"]} \cup
  {[kind |-> "file", content |-> c] : c \in SeqsUpTo(DocChars, MaxDocLen)}

\* checkPlanExhausted: readFile throws for a missing or unreadable file and the
\* catch answers false.
checkPlanExhausted(file) ==
  IF file.kind # "file" THEN [kind |-> "returned", value |-> FALSE]
  ELSE [kind |-> "returned", value |-> ~HasRemainingTasks(file.content)]

\* checkPlanExhausted is called on the tracking document.
CheckPlan ==
  /\ planAnswer = Unset
  /\ planAnswer' = checkPlanExhausted(planFile)
  /\ UNCHANGED <<maps, latestReviewResults, proc, rev, stopped, ev, scope, kill,
                 streams, reviewOutput, reviewResult, planFile, reviewRuns,
                 scan>>

InitPlan ==
  /\ Constructed
  /\ scope = NoScope
  /\ reviewOutput = Unset
  /\ statusText = Unset
  /\ planFile \in PlanFiles

SpecPlan == InitPlan /\ [][CheckPlan]_vars

\* The loop with the stdout streams of the processes.
NextStream ==
  \/ \E s \in scope.sessions : ExtStartLoop(s)
  \/ \E p \in Pids : StdoutData(p)
  \/ \E p \in Pids : Close(p)
  \/ \E p \in Pids : PlanChecked(p)
  \/ \E p \in Pids : DelayDone(p)
  \/ \E p \in Pids : RestartFailed(p)

SpecStream == InitStream /\ [][NextStream]_vars

\* The same with processes that write lines of digits only.
SpecOrder == InitOrder /\ [][NextStream]_vars

\* The loop with the force-kill timers of stopLoop.
NextStop ==
  \/ \E s \in scope.sessions : ExtStartLoop(s)
  \/ \E s \in scope.sessions : StopLoop(s)
  \/ \E s \in scope.sessions, p \in Pids : KillTimer(s, p)
  \/ \E p \in Pids : HandleRalphStatus(p)
  \/ \E p \in Pids : Close(p)
  \/ \E p \in Pids : PlanChecked(p)
  \/ \E p \in Pids : PushDone(p)
  \/ \E p \in Pids : DelayDone(p)
  \/ \E p \in Pids : RestartFailed(p)

\* A timer that is set fires; a process that was sent SIGKILL exits.  A process
\* that was only sent SIGTERM may go on for ever.
StopFairness ==
  /\ WF_vars(\E s \in Sessions, p \in Pids : KillTimer(s, p))
  /\ WF_vars(\E p \in Pids : "SIGKILL" \in signals[p] /\ Close(p))

SpecStop == InitStop /\ [][NextStop]_vars /\ StopFairness

\* ===================================================================== claims

\* The live agent processes of session s.
Live(s) == {p \in Pids : proc[p].sid = s /\ proc[p].pc = "running"}

\* This step spawned an agent process.
SpawnStep == \E q \in Pids : proc[q].pc = "unborn" /\ proc'[q].pc = "running"

\* The entry of map m for key k, as a sequence of length 0 or 1.
Entry(m, k) == IF Has(m, k) THEN <<m[k]>> ELSE <<>>

\* isRunning and getIterationCount.
isRunning(s) == Has(processes, s)
getIterationCount(s) == GetOr(iterationCounts, s, 0)

\* Everything the manager keeps for session s.
SessionState(s) ==
  <<Entry(processes, s), Entry(outputBuffers, s), Entry(sessionConfigs, s),
    Entry(iterationCounts, s), Entry(shouldContinueLoop, s),
    Entry(exitSignalReceived, s), Entry(currentBranches, s),
    Entry(latestReviewResults, s)>>

\* The runAutoReview executions of session s that are past the guard.
ReviewsInFlight(s) ==
  Cardinality({p \in Pids : proc[p].sid = s /\ proc[p].pc = "review"}) +
  Cardinality({r \in Rids : rev[r].sid = s /\ rev[r].pc = "inflight"})

\* C1: in every reachable state every session has at most one live agent
\* process spawned by startLoop.
C1_OneLiveProcess == \A s \in Sessions : Cardinality(Live(s)) <= 1

\* C2: a startLoop call for a session with an attached process fails with the
\* already-running error, spawns nothing and leaves everything kept for the
\* session (handle, buffer, config, counter, flags, branch, cached result) as
\* it was.
C2_DoubleStartRejected ==
  [][\A s \in Sessions :
       (isRunning(s) /\ ev'.op = "startLoop" /\ ev'.sid = s)
         => /\ ev'.err = "already running"
            /\ ~SpawnStep
            /\ SessionState(s)' = SessionState(s)
            /\ Entry(reviewInProgress, s)' = Entry(reviewInProgress, s)]_vars

\* C2 witness: an external loop:start was just rejected for a session whose
\* process is attached and has already restarted once.
C2_Witness ==
  /\ ev.op = "startLoop"
  /\ ev.caller = "external"
  /\ ev.err = "already running"
  /\ isRunning(ev.sid)
  /\ getIterationCount(ev.sid) = 1

\* C3: once stopLoop(s) was called, no restart and no continuation spawns a
\* process for s until an external caller starts s again.
C3_NoSpawnAfterStop ==
  [][\A s \in Sessions :
       (SpawnStep /\ ev'.sid = s /\ ev'.caller \in {"restart", "continuation"})
         => s \notin stopped]_vars

\* C4: a loop cycle that ends with reason max iterations, all of whose runs
\* exited with code 0 and which nobody stopped, has performed exactly
\* maxIterations spawn-run-exit iterations.
C4_ExactlyMaxIterations ==
  (ev.op = "complete" /\ ev.reason = "max iterations" /\ ev.exitCode = 0 /\
   ev.sid \notin stopped)
    => ev.runs = ev.maxIterations

\* C5: the close handler of a process that wrote a status block with
\* exit-signal true and exited with code 0 does not take the restart branch:
\* it emits the complete event.
C5_ExitSignalStops ==
  [][\A p \in Pids :
       (proc[p].pc = "planCheck" /\ proc[p].sentExit /\ proc[p].code = 0 /\
        proc'[p].pc # "planCheck")
         => proc'[p].pc \notin {"push", "delay"} /\ ev'.op = "complete"]_vars

\* C6: the iteration counter of a session changes only by +1 together with an
\* iteration update, to 0 when a continuation cycle begins, or to 0 when the
\* session is cleaned up.
C6_CounterSteps ==
  [][\A s \in Sessions :
       getIterationCount(s)' # getIterationCount(s)
         => \/ /\ getIterationCount(s)' = getIterationCount(s) + 1
               /\ ev'.op = "iteration:update"
            \/ /\ getIterationCount(s)' = 0
               /\ ev'.op = "continuation" \/ ~Has(iterationCounts', s)]_vars

\* C7: at most one runAutoReview execution per session is past its guard.
C7_SingleFlightReview == \A s \in Sessions : ReviewsInFlight(s) <= 1

\* C8: when a runAutoReview execution that had set the guard returns, the
\* review-in-progress flag of its session is not set, and on every failing
\* outcome the returned result has status ERROR.
C8_GuardReleased ==
  ev.op = "review:return"
    => /\ ~GetOr(reviewInProgress, ev.sid, FALSE)
       /\ ev.err # "none" => ev.ret = "ERROR"

\* C8 witness: a manually triggered review that had set the guard has just
\* returned after its timeout.
C8_Witness ==
  /\ ev.op = "review:return"
  /\ ev.caller = "manual"
  /\ ev.err = "timeout"

C10_NeverSilent ==
  [][\A p \in Pids :
       (proc[p].pc \in {"running", "planCheck", "push", "delay", "restartFailed"}
        /\ proc'[p].pc = "done" /\ ~SpawnStep)
         => ev'.op = "complete"]_vars

\* The handler of p has just been handed the result of its auto-review.
ReviewReturnedTo(p) == proc[p].pc = "review" /\ proc'[p].pc # "review"

\* The four conditions of an automatic continuation, on the policy of the
\* handler's config and the review result just returned and cached.
ContinueConditions(p) ==
  LET c == proc[p].config
      r == latestReviewResults'[proc[p].sid]
  IN /\ c.acEnabled
     /\ r.reviewStatus # "COMPLETE"
     /\ r.missingItems = "nonempty"
     /\ c.acCur < c.acMax

\* The handler of p, having decided to continue, ends in this step.
ContinuationEnds(p) ==
  /\ proc[p].pc \in {"contDocs", "contDelay"}
  /\ proc'[p].pc \notin {"contDocs", "contDelay"}

\* This step spawned the first process of a continuation cycle of session s
\* out of the handler of p: counter 0, auto-iteration + 1, continuation prompt.
ContinuationStarts(p, s) ==
  /\ SpawnStep
  /\ proc[p].pc = "contDelay"
  /\ ev'.caller = "continuation"
  /\ GetOr(iterationCounts', s, 0) = 0
  /\ sessionConfigs'[s].acCur = proc[p].config.acCur + 1
  /\ sessionConfigs'[s].promptFile = "PROMPT_continue.md"
  /\ Has(processes', s)

\* C11 as stated: after an auto-review returns the controller decides to
\* continue exactly under the four conditions, and whenever it has decided to
\* continue it starts the continuation cycle.
C11_ContinuesIff ==
  [][\A p \in Pids :
       /\ ReviewReturnedTo(p) => (ContinueConditions(p) <=> proc'[p].pc = "contDocs")
       /\ ContinuationEnds(p) => ContinuationStarts(p, proc[p].sid)]_vars

\* C11 amended: the decision is taken exactly under the four conditions; a
\* continuation cycle is started only out of such a decision, with the counter
\* at 0, the auto-iteration raised by 1 and the continuation prompt; a decided
\* continuation that is not started ended in an error (the continuation
\* documents could not be generated, or startLoop threw).
C11_ContinuesIffUnlessFailure ==
  [][\A p \in Pids :
       /\ ReviewReturnedTo(p) => (ContinueConditions(p) <=> proc'[p].pc = "contDocs")
       /\ (SpawnStep /\ ev'.caller = "continuation" /\ proc'[p].pc # proc[p].pc
           /\ proc[p].pc # "unborn")
            => ContinuationStarts(p, proc[p].sid)
       /\ ContinuationEnds(p) =>
            \/ ContinuationStarts(p, proc[p].sid)
            \/ ~SpawnStep /\ proc'[p].pc = "contFailed"
            \/ ~SpawnStep /\ ev'.op = "error" /\ ev'.err = "Auto-review failed"]_vars

\* C11 witness: a continuation cycle has just been started with the
\* continuation prompt and auto-iteration 1.
C11_Witness ==
  /\ ev.op = "startLoop"
  /\ ev.caller = "continuation"
  /\ ev.err = "none"
  /\ isRunning(ev.sid)
  /\ sessionConfigs[ev.sid].acCur = 1
  /\ sessionConfigs[ev.sid].promptFile = "PROMPT_continue.md"
  /\ getIterationCount(ev.sid) = 0

\* C12: the auto-iteration of a session never exceeds the configured maximum,
\* and a handler whose auto-review returns with the auto-iteration at the
\* maximum emits the max-iterations message and starts no further cycle.
C12_ChainTerminates ==
  /\ [](\A s \in Sessions : Has(sessionConfigs, s) /\ sessionConfigs[s].acEnabled
          => sessionConfigs[s].acCur <= sessionConfigs[s].acMax)
  /\ [][\A p \in Pids :
          (ReviewReturnedTo(p) /\ proc[p].config.acEnabled
             /\ proc[p].config.acCur >= proc[p].config.acMax)
            => /\ ev'.reason = "maxed"
               /\ proc'[p].pc = "done"
               /\ ~SpawnStep]_vars

\* The close handler of p has just decided between restart and completion.
ExitDecided(p) == proc[p].pc = "planCheck" /\ proc'[p].pc # "planCheck"

\* The five conditions of a restart, on the values the handler read at exit
\* and the answer of the plan check.
ExitConditions(p) ==
  /\ proc[p].code = 0
  /\ proc[p].shouldContinue
  /\ ~proc[p].exitSignal
  /\ ~(proc[p].config.maxIterations > 0 /\
       proc[p].currentIteration >= proc[p].config.maxIterations)
  /\ ~ev'.planExhausted

\* The handler of p is in the restart branch after this step.
InRestartBranch(p) == proc'[p].pc \in {"push", "delay"}

\* The handler of p took the completion path in this step: complete event, no
\* increment, no spawn.
CompletionPath(p) ==
  /\ ev'.op = "complete"
  /\ iterationCounts' \in {iterationCounts, Del(iterationCounts, proc[p].sid)}
  /\ ~SpawnStep
  /\ proc'[p].pc \in {"review", "done"}

\* The handler of p incremented the counter in this step.
Incremented(p) ==
  /\ proc[p].pc \in {"planCheck", "push"}
  /\ proc'[p].pc = "delay"

\* The restart branch of the handler of p ends in this step.
RestartBranchEnds(p) == proc[p].pc = "delay" /\ proc'[p].pc # "delay"

\* This step spawned the next process of session s as a restart.
Restarted(s) ==
  /\ SpawnStep
  /\ ev'.caller = "restart"
  /\ ev'.sid = s
  /\ Has(processes', s)

\* C20 as stated: on exit the loop is restarted exactly under the five
\* conditions; in every other combination the handler takes the completion
\* path without increment or spawn.
C20_RestartsIff ==
  [][\A p \in Pids :
       /\ ExitDecided(p) => (ExitConditions(p) <=> InRestartBranch(p))
       /\ (ExitDecided(p) /\ ~InRestartBranch(p)) => CompletionPath(p)
       /\ Incremented(p) =>
            iterationCounts'[proc[p].sid] = proc[p].currentIteration + 1
       /\ RestartBranchEnds(p) => Restarted(proc[p].sid)]_vars

\* C20 amended: the handler enters the restart branch exactly under the five
\* conditions and there increments the counter by one; after the delay it
\* spawns, unless the loop was stopped meanwhile (nothing more happens) or
\* startLoop throws (error path); in every other combination it takes the
\* completion path without increment or spawn.
C20_RestartBranchIff ==
  [][\A p \in Pids :
       /\ ExitDecided(p) => (ExitConditions(p) <=> InRestartBranch(p))
       /\ (ExitDecided(p) /\ ~InRestartBranch(p)) => CompletionPath(p)
       /\ Incremented(p) =>
            iterationCounts'[proc[p].sid] = proc[p].currentIteration + 1
       /\ RestartBranchEnds(p) =>
            \/ Restarted(proc[p].sid)
            \/ ~SpawnStep /\ ~GetOr(shouldContinueLoop, proc[p].sid, FALSE)
                 /\ proc'[p].pc = "done" /\ ev'.op = "none"
            \/ ~SpawnStep /\ proc'[p].pc = "restartFailed"]_vars

\* C20 witnesses: a restart has just spawned the next process after an
\* increment; a non-zero exit has just taken the completion path.
C20_Witness ==
  /\ ev.op = "startLoop"
  /\ ev.caller = "restart"
  /\ ev.err = "none"
  /\ isRunning(ev.sid)
  /\ getIterationCount(ev.sid) = 1

\* stopLoop has just been called on session s while a process was attached.
StoppedAttached(s) ==
  ev.op = "stopLoop" /\ ev.caller = "attached" /\ ev.sid = s

\* C18: stopLoop on a session with an attached process clears the
\* should-continue flag, sends SIGTERM and sets the timer in one synchronous
\* step; the timer sends SIGKILL exactly when a process is still attached; and
\* with a forced kill always ending the process, the session eventually is not
\* running, whatever the child does with SIGTERM.
C18_StopEscalates ==
  /\ [][\A s \in Sessions :
          (Has(processes, s) /\ StoppedAttached(s)')
            => /\ shouldContinueLoop'[s] = FALSE
               /\ "SIGTERM" \in signals'[processes[s]]
               /\ <<s, processes[s]>> \in timers']_vars
  /\ [][\A s \in Sessions, p \in Pids :
          (<<s, p>> \in timers /\ <<s, p>> \notin timers')
            => ("SIGKILL" \in signals'[p] <=>
                  (Has(processes, s) \/ "SIGKILL" \in signals[p]))]_vars
  /\ \A s \in Sessions : StoppedAttached(s) ~> ~isRunning(s)

\* C18 witness: the timer has fired on a process that ignored SIGTERM, and
\* the process has since exited.
C18_Witness ==
  \E p \in Pids :
    /\ signals[p] = {"SIGTERM", "SIGKILL"}
    /\ proc[p].pc \notin {"unborn", "running"}
    /\ ~isRunning("A")

\* The document has an unchecked-checklist line: a line that starts with "-",
\* "[" and "]" with nothing but blanks between them.
HasUncheckedLine(content) ==
  \E n \in 1..Len(Split(content)) : MarkerAt(Split(content)[n], 1)

\* C13: checkPlanExhausted never throws; it answers true for a readable
\* document without an unchecked-checklist line, false for a document with
\* one, and false for a missing or unreadable file.
C13_PlanExhausted ==
  planAnswer # Unset =>
    /\ planAnswer.kind = "returned"
    /\ planAnswer.value =
         (planFile.kind = "file" /\ ~HasUncheckedLine(planFile.content))

\* Process p has exited and its 'close' handler has started.
Closed(p) == proc[p].pc \notin {"unborn", "running"}

\* The stdout events emitted for process p, in order, as <<text, parsed>>.
RECURSIVE Emitted(_, _)
Emitted(p, k) ==
  IF k > Len(events) THEN <<>>
  ELSE (IF events[k].type = "stdout" /\ events[k].pid = p
          THEN << <<events[k].text, events[k].parsed>> >> ELSE <<>>)
       \o Emitted(p, k + 1)

\* The lines process p wrote that are not blank, the last of them with or
\* without its newline, as <<text, it is JSON>>.
RECURSIVE Expected(_, _)
Expected(lines, k) ==
  IF k > Len(lines) THEN <<>>
  ELSE (IF IsBlank(lines[k]) THEN <<>>
        ELSE << <<lines[k], JsonParses(lines[k])>> >>)
       \o Expected(lines, k + 1)

\* C14: once a process has exited, every non-blank line it wrote, the last
\* one with or without a newline, has been forwarded as exactly one stdout
\* event, parsed when it is JSON and raw otherwise.
C14_EveryLineOnce ==
  \A p \in Pids :
    Closed(p) => Emitted(p, 1) = Expected(Split(written[p]), 1)

\* The stdout events are in the order of the lines: by process, then by line.
LinesInOrder ==
  \A i, j \in 1..Len(events) :
    (i < j /\ events[i].type = "stdout" /\ events[j].type = "stdout")
      => \/ events[i].pid < events[j].pid
         \/ events[i].pid = events[j].pid /\ events[i].line <= events[j].line

\* A stdout event carries the line of its process that its number names.
LinesAreWritten ==
  \A i \in 1..Len(events) :
    events[i].type = "stdout"
      => /\ events[i].line <= Len(Split(written[events[i].pid]))
         /\ events[i].text = Split(written[events[i].pid])[events[i].line]

\* C19: the stdout events of a session are emitted in the order in which the
\* lines were written; and when a restart spawns the next process, the
\* iteration:update event of that restart has been emitted and no event of
\* the new process has: events are only ever added at the end, and stdout
\* events only for a running process.
C19_EventsInOrder ==
  /\ [](LinesInOrder /\ LinesAreWritten)
  /\ [][/\ Len(events') >= Len(events)
        /\ SubSeq(events', 1, Len(events)) = events
        /\ \A i \in (Len(events) + 1)..Len(events') :
             events'[i].type = "stdout" => proc[events'[i].pid].pc = "running"
        /\ \A p \in Pids :
             (RestartBranchEnds(p) /\ Restarted(proc[p].sid))
               => \E i \in 1..Len(events) :
                    events[i] = IterationEvent(p, getIterationCount(proc[p].sid))
       ]_vars

\* C19 witness: a line of the first process, the iteration:update event of
\* the restart and a line of the process the restart spawned have been
\* emitted, in this order.
C19_Witness ==
  \E i, k, l \in 1..Len(events) :
    /\ i < k /\ k < l
    /\ events[i].type = "stdout"
    /\ events[k].type = "iteration:update" /\ events[k].pid = events[i].pid
    /\ events[l].type = "stdout" /\ events[l].pid > events[k].pid
    /\ proc[events[l].pid].run = 2

\* The runAutoReview call has returned for the output.
ReviewReturned == reviewResult # Unset

\* The fenced blocks of the output that are objects passing validation.
ValidFences ==
  {i \in 1..Len(reviewOutput) :
     IsFence(reviewOutput[i]) /\ ValidReview(reviewOutput[i].body)}

\* The result carries the members of the object unchanged and has its
\* duration.
Carries(res, b) ==
  /\ res.kind = "result"
  /\ res.reviewStatus = b.status
  /\ res.overallScore = b.score
  /\ res.requirements = b.requirements
  /\ res.missingItems = b.missingItems
  /\ res.reviewDurationMs = "set"

\* C15: parseReviewOutput never throws, and every result it returns that is
\* not null has its reviewStatus among COMPLETE, PARTIAL, INCOMPLETE, ERROR,
\* PENDING and a numeric overallScore within 0..100.
C15_ResultWithinRange ==
  ReviewReturned =>
    /\ reviewResult.parsed.kind \in {"null", "result"}
    /\ reviewResult.parsed.kind = "result" =>
         /\ reviewResult.parsed.reviewStatus \in ValidStatuses
         /\ reviewResult.parsed.overallScore.type = "number"
         /\ reviewResult.parsed.overallScore.value \in 0..100

NothingToParse ==
  \A i \in 1..Len(reviewOutput) :
    /\ ~IsFence(reviewOutput[i])
    /\ ~HasStatusMember(reviewOutput[i])
    /\ ~IsStatusKeyword(reviewOutput[i])
    /\ ~IsScoreKeyword(reviewOutput[i])

ReviewInvoked(p) ==
  /\ ev'.op = "complete"
  /\ \/ ev'.err \in {"Auto-review failed", "Missing required files"}
     \/ ev'.caller = "review:start" /\ proc'[p].pc = "review"

\* The exit code of p was 0, p wrote no exit signal and the config of its
\* handler has the auto-review policy enabled.
ReviewConditions(p) ==
  proc[p].code = 0 /\ ~proc[p].sentExit /\ proc[p].config.autoReview

\* C21: when a loop cycle completes, runAutoReview is called if and only if
\* the exit code is 0, no exit signal was received in that run and the
\* auto-review policy is enabled; the result it returns is the one the
\* continuation decision is taken on.
C21_ReviewInvokedIff ==
  [][\A p \in Pids :
       /\ (ExitDecided(p) /\ ~InRestartBranch(p)) =>
            (ReviewInvoked(p) <=> ReviewConditions(p))
       /\ (ExitDecided(p) /\ ev'.err = "Missing required files") =>
            ev'.caller = ContinueDecision(proc[p].config, createErrorReviewResult)
       /\ ReviewReturnedTo(p) =>
            /\ ev'.ret = latestReviewResults'[proc[p].sid].reviewStatus
            /\ ev'.reason = ContinueDecision(proc[p].config,
                                             latestReviewResults'[proc[p].sid])]_vars

\* C21 witness: a cycle has completed with exit code 0 and its handler has
\* started the auto-review.
C21_Witness ==
  /\ ev.op = "complete"
  /\ ev.exitCode = 0
  /\ ev.caller = "review:start"
  /\ Has(reviewInProgress, ev.sid)
  /\ \E p \in Pids : proc[p].pc = "review" /\ proc[p].config.autoReview

\* A review pipeline (prompt file, review process) was started in this step.
ReviewSpawned ==
  \/ \E r \in Rids : rev[r].pc # "inflight" /\ rev'[r].pc = "inflight"
  \/ \E p \in Pids : proc[p].pc # "review" /\ proc'[p].pc = "review"

\* The runAutoReview call of this step ended at the missing document: the
\* error result returned, review:error emitted rather than review:start,
\* nothing spawned and the guard not set.
ShortCircuited ==
  /\ ev'.ret = "ERROR"
  /\ ev'.err = "Missing required files"
  /\ ev'.emits = "review:error"
  /\ ~ReviewSpawned
  /\ ~SpawnStep
  /\ ~GetOr(reviewInProgress', ev'.sid, FALSE)

\* C22: a runAutoReview call made while the tracking document is missing
\* returns an ERROR result, spawns nothing, does not set the guard and emits
\* review:error instead of review:start.
C22_MissingDocShortCircuits ==
  [][ev'.planMissing => ShortCircuited]_vars

\* C22 amended: the same of a call made while the tracking document is
\* missing and no review of the session is in progress.
C22_MissingDocShortCircuitsUnlessReviewing ==
  [][(ev'.planMissing /\ ~GetOr(reviewInProgress, ev'.sid, FALSE))
       => ShortCircuited]_vars

\* C22 witness: review:trigger has just been answered with the error result
\* for the missing document, and the guard is not set.
C22_Witness ==
  /\ ev.op = "review:trigger"
  /\ ev.planMissing
  /\ ev.ret = "ERROR"
  /\ ev.emits = "review:error"
  /\ ~Has(reviewInProgress, ev.sid)
  /\ \A r \in Rids : rev[r].pc # "inflight"

\* The runAutoReview call of request r is past its guards and has not
\* returned.
ReviewRunning(r) == rev[r].pc \in {"inflight", "awaitOutput", "saveOutput"}

\* The timer of request r fires in this step.
TimerFires(r) == reviewRuns[r].timer = "set" /\ reviewRuns'[r].timer = "fired"

\* The review process of request r closes in this step, after the call
\* returned.
LateClose(r) ==
  /\ rev[r].pc = "done"
  /\ reviewRuns[r].child # "exited"
  /\ reviewRuns'[r].child = "exited"

\* C23: every runAutoReview execution returns; when the timer fires before
\* the review process closed, the process is sent SIGTERM and the call returns
\* the 'Review timed out' ERROR result, which it caches; a close of the
\* process after the call returned changes neither what was returned nor the
\* cache.
C23_ReviewTerminates ==
  /\ \A r \in Rids : ReviewRunning(r) ~> rev[r].pc = "done"
  /\ [][\A r \in Rids :
          /\ TimerFires(r) =>
               /\ reviewRuns[r].child = "alive"
               /\ "SIGTERM" \in reviewRuns'[r].signals
               /\ rev'[r].pc = "done"
               /\ reviewRuns'[r].returned.outcome = "timeout"
               /\ reviewRuns'[r].returned.result.reviewStatus = "ERROR"
               /\ latestReviewResults'[rev[r].sid] = reviewRuns'[r].returned.result
               /\ reviewRuns'[r].child = "alive"
          /\ LateClose(r) =>
               /\ reviewRuns'[r].returned = reviewRuns[r].returned
               /\ latestReviewResults' = latestReviewResults]_vars

\* C23 witness: the first call returned on its timer, a later call cached a
\* parsed result, and then the process of the first call closed.
C23_Witness ==
  /\ reviewRuns[1].returned # Unset
  /\ reviewRuns[1].returned.outcome = "timeout"
  /\ reviewRuns[1].child = "exited"
  /\ reviewRuns[2].returned # Unset
  /\ reviewRuns[2].returned.outcome = "parsed"
  /\ ev.op = "review:close"
  /\ latestReviewResults["A"] = reviewRuns[2].returned.result

\* The JSON text the fenced tier and the bare tier of the output take (NullBody
\* with form "none" when the tier finds no match), and whether JSON.parse
\* accepts it.
NoMatch == [NullBody EXCEPT !.form = "none"]
FencedText ==
  IF FirstFence(reviewOutput) = 0 THEN NoMatch
  ELSE reviewOutput[FirstFence(reviewOutput)].body
BareText ==
  IF BareMatchStart(reviewOutput) = 0 THEN NoMatch
  ELSE reviewOutput[BareMatchStart(reviewOutput)].body
ParsesAsJson(b) == b.form \in {"object", "null"}

\* What a tier answers for a JSON text that parsed: the object as it is when
\* it passes validation, repaired when it does not.
TierAnswer(b, tier) ==
  IF ValidReview(b) THEN Result(b.status, b.score, b.requirements,
                                b.missingItems, tier)
  ELSE RepairedResult(b, tier)

\* The result is the one of regex partial extraction (null without a keyword).
FromPartialTier(res) == res.kind = "result" => res.tier = "partial"

RECURSIVE FirstEnd(_, _)
FirstEnd(text, k) ==
  IF BlockEndAtBlankLineOrEnd(text, k) THEN k ELSE FirstEnd(text, k + 1)
WrittenBlock(text) ==
  LET m == FirstIndex(Markers(text))
      w == SkipSpace(text, m + 1)
  IN IF w > Len(text) THEN <<>> ELSE SubSeq(text, w, FirstEnd(text, w) - 1)

\* C25: parseRalphStatus answers a status exactly for the texts that hold the
\* marker; in it every field written in the block, which ends at a blank line
\* or at the end of the input, has its written value and every other field
\* its default.
C25_StatusIffMarker ==
  statusAnswer # Unset =>
    IF Markers(statusText) = {} THEN statusAnswer.kind = "null"
    ELSE /\ statusAnswer.kind = "status"
         /\ statusAnswer.exitSignal =
              (\E i \in 1..Len(WrittenBlock(statusText)) :
                 WrittenBlock(statusText)[i] = "EXIT_SIGNAL: true")
         /\ statusAnswer.taskCompleted =
              IF \E i \in 1..Len(WrittenBlock(statusText)) :
                   WrittenBlock(statusText)[i] = "TASK_COMPLETED: \"done\""
                THEN "done" ELSE ""

\* The push of the handler of p is over in this step.
PushOver(p) == proc[p].pc = "push" /\ proc'[p].pc # "push"

\* What the handler of p does after a push that succeeded: the counter of the
\* session is one more than the iteration the handler read, the
\* iteration:update event carries it, and the handler waits out the delay
\* before the restart with the closure of its restart branch.
AsAfterPush(p) ==
  /\ iterationCounts' = Put(iterationCounts, proc[p].sid,
                            proc[p].currentIteration + 1)
  /\ ev'.op = "iteration:update"
  /\ ev'.sid = proc[p].sid
  /\ ev'.totalIterations = proc[p].currentIteration + 1
  /\ proc' = Goto(p, proc[p], "delay")
  /\ UNCHANGED <<processes, sessionConfigs, shouldContinueLoop,
                 exitSignalReceived, latestReviewResults>>

\* C26: a push that fails or times out emits a stderr event and the handler
\* then goes on exactly as after a push that succeeded: counter plus one,
\* iteration-update event, delay and restart.
C26_PushFailureGoesOn ==
  [][\A p \in Pids :
       PushOver(p) =>
         /\ ev'.pushed \in {"system", "stderr"}
         /\ AsAfterPush(p)]_vars

\* A push failed and its handler waits out the delay before the restart.
C26_Witness ==
  /\ ev.op = "iteration:update"
  /\ ev.pushed = "stderr"
  /\ \E p \in Pids : proc[p].pc = "delay" /\ proc[p].sid = ev.sid
  /\ GetOr(iterationCounts, ev.sid, 0) = ev.totalIterations

\* getLatestReviewResult(s): the cached result of the session, if any.
getLatestReviewResult(m, s) == GetOr(m, s, Unset)

\* A runAutoReview call for session s that got past its guards returns in
\* this step.
ReviewReturnsFor(s) ==
  /\ ev'.op = "review:return"
  /\ ev'.sid = s
  /\ \/ \E p \in Pids : proc[p].pc = "review" /\ proc'[p].pc # "review"
     \/ \E r \in Rids : rev[r].pc = "inflight" /\ rev'[r].pc = "done"

\* cleanupSession(s) ran in this step.
CleanedUp(s) == Has(sessionConfigs, s) /\ ~Has(sessionConfigs', s)

\* The cache of s holds what the last review of s returned: a return writes
\* its result there and no other step touches the entry.
CacheFollowsReturns(s) ==
  IF ReviewReturnsFor(s)
    THEN /\ Has(latestReviewResults', s)
         /\ latestReviewResults'[s].reviewStatus = ev'.ret
    ELSE getLatestReviewResult(latestReviewResults', s) =
           getLatestReviewResult(latestReviewResults, s)

\* C27 as stated: the cache of a session holds the result the most recent
\* review run returned until a later review overwrites it, and after
\* cleanupSession the session has no cached review result.
C27_CacheUntilCleanup ==
  [][\A s \in Sessions :
       /\ CacheFollowsReturns(s)
       /\ CleanedUp(s) => ~Has(latestReviewResults', s)]_vars

\* C27 (amended): the cache of a session holds the result the most recent
\* review run that got past its guards returned until a later review
\* overwrites it; cleanupSession leaves the cached result in place.
C27_CacheOutlivesCleanup ==
  [][\A s \in Sessions :
       /\ CacheFollowsReturns(s)
       /\ CleanedUp(s) =>
            (Has(latestReviewResults', s) <=>
               (Has(latestReviewResults, s) \/ ReviewReturnsFor(s)))]_vars

\* An auto-review returned, its handler cleaned the session up and the result
\* is still cached.
C27_Witness ==
  /\ ev.op = "review:return"
  /\ ev.caller = "auto"
  /\ ~Has(sessionConfigs, ev.sid)
  /\ Has(latestReviewResults, ev.sid)
  /\ latestReviewResults[ev.sid].reviewStatus = ev.ret

\* C28: whenever an agent process spawned by startLoop for a session is
\* alive, isRunning answers true for that session: no step removes the
\* registry entry of a running process.
C28_NoOrphanedProcess == \A s \in Sessions : Live(s) # {} => isRunning(s)

\* The close handler of p emits its complete event in this step: after the
\* plan check or, for a session without config, at once.
Completes(p) ==
  /\ ev'.op = "complete"
  /\ proc[p].pc \in {"running", "planCheck"}
  /\ proc'[p].pc \notin {"running", "planCheck"}

\* The locals of the handler of p when it chooses the reason.
ExitLocals(p) ==
  IF proc[p].pc = "planCheck"
    THEN [proc[p] EXCEPT !.planExhausted = ev'.planExhausted]
    ELSE [proc[p] EXCEPT
            !.code = ev'.exitCode,
            !.config = GetOr(sessionConfigs, proc[p].sid, NoConfig),
            !.shouldContinue = GetOr(shouldContinueLoop, proc[p].sid, FALSE),
            !.exitSignal = GetOr(exitSignalReceived, proc[p].sid, FALSE),
            !.currentIteration = GetOr(iterationCounts, proc[p].sid, 0)]

\* The stop conditions in the order of their precedence, each with its reason.
StopConditions(h) ==
  << <<"plan exhausted", h.planExhausted>>,
     <<"exit signal", h.exitSignal>>,
     <<"max iterations", MaxReached(h)>>,
     <<"stopped", ~h.shouldContinue>>,
     <<"exit code", h.code # 0>>,
     <<"unknown", TRUE>> >>

\* C29: the reason of the complete event is that of the first stop condition
\* that holds, in the order plan exhausted, exit signal, max iterations
\* reached, manually stopped, non-zero exit, unknown; so 'Loop was stopped' is
\* reported only when the plan is not exhausted, no exit signal was received
\* and the cap is not reached, and 'Unknown' only when the config is missing.
C29_ReasonPrecedence ==
  [][\A p \in Pids :
       Completes(p) =>
         LET h == ExitLocals(p)
             c == StopConditions(h)
         IN /\ \E i \in 1..Len(c) :
                 /\ c[i][2]
                 /\ ev'.reason = c[i][1]
                 /\ \A j \in 1..(i - 1) : ~c[j][2]
            /\ ev'.reason = "stopped" =>
                 (~h.planExhausted /\ ~h.exitSignal /\ ~MaxReached(h))
            /\ ev'.reason = "unknown" => ~h.config.defined]_vars

\* A stopped loop whose process exited with a non-zero code: two stop
\* conditions hold and the complete event says 'Loop was stopped'.
C29_Witness ==
  /\ ev.op = "complete"
  /\ ev.reason = "stopped"
  /\ ev.exitCode # 0
  /\ ~ev.planExhausted
  /\ ev.sid \in stopped

\* C30: every result of parseReviewOutput that is not null has missingItems
\* and requirements that are lists, so the auto-continue condition reads
\* reviewResult.missingItems.length without error.
C30_ListsInEveryResult ==
  (ReviewReturned /\ reviewResult.parsed.kind = "result") =>
    /\ reviewResult.parsed.missingItems \in {"empty", "nonempty"}
    /\ reviewResult.parsed.requirements = "list"

====
